---- MODULE Spec2Model ----
(***************************************************************************)
(* The LFG description-to-file-tree pipeline: parse(description) builds a  *)
(* Specification (name, entities with relationships, features, billing     *)
(* plans, pages); generate(spec) renders the fixed global templates and    *)
(* the per-entity templates into an ordered list of files, which the build *)
(* command then writes and installs.                                       *)
(*                                                                         *)
(* A description is a sequence of whitespace-separated words.  A word is   *)
(* an atomic string, so the regular expressions and keyword scans of the   *)
(* parser are modelled at word granularity.                                *)
(***************************************************************************)
EXTENDS Naturals, Sequences, FiniteSets, TLC

VARIABLES
    description,   \* the free-text input, as a sequence of words
    pc,            \* position of the build: name, entities, ..., returned, done, failed
    tried,         \* the name patterns run so far, in the order they ran
    appName,       \* spec.name, as a sequence of words
    entities,      \* spec.entities, in detection order
    features,      \* spec.features
    billingPlans,  \* spec.billingPlans
    pages,         \* spec.pages
    files,         \* generate()'s local array of { path, content }
    gi,            \* index of the next global template to render
    ei,            \* index of the entity the entity loop is at
    ti,            \* index of the next per-entity template to render (0: loop head)
    manifest,      \* what the caller of generate() received: [returned, files]
    error,         \* the fatal error that ended the build ("none" while there is none)
    written,       \* the paths the build command has written to disk
    installed,     \* whether the post-write install step has run
    ctx,           \* the template context of the build: { entity, timestamp, version }
    errorInfo,     \* what the fatal error names: the helper and the template
    dryRun,        \* the --dry-run option, as the build command read it
    skipInstall,   \* the --skip-install option, as the build command read it
    helpers,       \* the Handlebars registry: the names of the registered helpers
    partials,      \* the Handlebars registry: partial name -> directory of its file
    clock,         \* the wall clock of the process
    version,       \* the version of the tool
    customised,    \* the templates directory: a template edited to call a helper
    addedRelation, \* the relationshipMap: the entry a developer added, if any
    partialFiles,  \* the templates directory: the partial files, as { dir, name }
    hbs,           \* the Handlebars engine: the template it is compiling or rendering
    previous,      \* the manifest of the previous generate() run on this Specification
    lookup,        \* the last lookup a template made in a type-mapping table
    other,         \* the generate() invocation that is suspended while this one runs
    webhook,       \* the request the Stripe webhook route is handling, and its database
    db,            \* the generated application's database: users, memberships, organizations
    calls,         \* the server-action and route calls in flight, one per caller
    stripe         \* the customers created at Stripe

vars == <<description, pc, tried, appName, entities, features, billingPlans, pages,
          files, gi, ei, ti, manifest, error, written, installed,
          ctx, errorInfo, dryRun, skipInstall, helpers, partials,
          clock, version, customised, addedRelation, partialFiles, hbs, previous, lookup,
          other, webhook,
          db, calls, stripe>>

specVars == <<appName, entities, features, billingPlans, pages>>
genVars == <<files, gi, ei, ti, manifest, error, written, installed,
             ctx, errorInfo, dryRun, skipInstall, helpers, partials>>
\* What no step of parse() or generate() changes: the clock, the installed
\* tool and its templates directory, and what an earlier run left.
toolVars == <<version, customised, addedRelation, partialFiles, hbs>>
appVars == <<db, calls, stripe>>
sideVars == <<lookup, other, webhook, appVars>>
envVars == <<clock, toolVars, previous, sideVars>>

\* The entity of a context that has none.
None == "<none>"

\* No second invocation of generate() is suspended.
NoInvocation == [active |-> FALSE]

\* The webhook route is handling no request.
NoRequest == [pc |-> "idle"]

\* The generated application is not running: no database, no caller.
NoDb == [users |-> {}, memberships |-> {}, organizations |-> {}, nextId |-> 1]
NoCalls == [p \in {} |-> 0]
NoStripe == [customers |-> {}, sessions |-> {}]

AppInit ==
    /\ db = NoDb
    /\ calls = NoCalls
    /\ stripe = NoStripe

\* The caller of generate() holds no manifest.
NoManifest == [returned |-> FALSE, files |-> <<>>]
Returned(fs) == [returned |-> TRUE, files |-> fs]

\* An optional billingPlans: undefined, or a list of plans.
Undefined == [defined |-> FALSE, plans |-> <<>>]
Defined(ps) == [defined |-> TRUE, plans |-> ps]

(***************************************************************************)
(* Bounds of the model.                                                    *)
(***************************************************************************)
MaxWords == 3      \* longest description of a whole build, in words
MaxNameWords == 5  \* longest description given to extractAppName alone, in words
MaxEntities == 2   \* most entities of a Specification handed to generate() directly
MaxClock == 2      \* how far the wall clock advances during the runs observed
MaxCalls == 2      \* most server-action calls a single caller makes, one after another
MaxInvites == 1    \* most inviteMember calls each of two concurrent callers makes

(***************************************************************************)
(* Words.                                                                  *)
(***************************************************************************)
Vocab == {"called", "build", "a", "app", "Invoice", "client", "contract", "freemium",
          "pdf"}

\* The words that matter to the name patterns.
NameVocab == {"called", "build", "me", "a", "app", "Invoice"}

\* String.prototype.toLowerCase on the words of the vocabulary.
toLowerCase(w) ==
    CASE w = "Invoice" -> "invoice"
      [] w = "Client" -> "client"
      [] w = "Contract" -> "contract"
      [] OTHER -> w

Range(s) == {s[i] : i \in 1..Len(s)}

Min(S) == CHOOSE m \in S : \A n \in S : m <= n

\* description.toLowerCase(), split into words
lowerWords(d) == [i \in 1..Len(d) |-> toLowerCase(d[i])]

Descriptions == UNION {[1..n -> Vocab] : n \in 0..MaxWords}

NameDescriptions == UNION {[1..n -> NameVocab] : n \in 0..MaxNameWords}

\* Words of which several are keywords of one entity kind.
KeywordVocab == {"invoice", "billing", "bill", "client", "customer", "contract",
                 "freemium"}

KeywordDescriptions == UNION {[1..n -> KeywordVocab] : n \in 0..MaxWords}

(***************************************************************************)
(* extractAppName: three patterns in priority order, then the fallback.    *)
(***************************************************************************)
stopWords == {"a", "an", "the", "with", "for", "and", "or", "to", "in", "on", "of",
              "my", "our", "your", "their"}

nameTriggers == {"called", "named"}
buildVerbs == {"build", "create", "make"}
articles == {"a", "an"}
domainNouns == {"saas", "platform", "app", "tool", "system", "service"}

NoMatch == [matched |-> FALSE, capture |-> <<>>]
Match(c) == [matched |-> TRUE, capture |-> c]

\* /(?:called|named)\s+"?([^"]+)"?/i : the leftmost trigger word that has
\* text after it; the capture runs to the end (the words hold no quote).
namedMatch(d) ==
    LET low == lowerWords(d)
        I == {i \in 1..Len(d) : low[i] \in nameTriggers /\ i < Len(d)}
    IN  IF I = {} THEN NoMatch ELSE Match(SubSeq(d, Min(I) + 1, Len(d)))

\* The first index after position j that holds a domain noun (0: there is none).
nounAfter(low, j) ==
    LET K == {k \in (j + 1)..Len(low) : low[k] \in domainNouns}
    IN  IF K = {} THEN 0 ELSE Min(K)

\* Where the capture of the build pattern starts when the verb is at i (0: no match):
\* verb, optional "me", then "a" or "an".
captureStart(low, i) ==
    IF i + 1 <= Len(low) /\ low[i + 1] \in articles THEN i + 2
    ELSE IF i + 2 <= Len(low) /\ low[i + 1] = "me" /\ low[i + 2] \in articles THEN i + 3
    ELSE 0

\* /(?:build|create|make)\s+(?:me\s+)?(?:a|an)\s+(.+?)(?:\s+(?:saas|platform|app|tool|system|service))/i
\* The lazy capture is at least one word and ends before the first domain
\* noun that follows it.
buildMatch(d) ==
    LET low == lowerWords(d)
        ok(i) == /\ low[i] \in buildVerbs
                 /\ captureStart(low, i) # 0
                 /\ captureStart(low, i) <= Len(d)
                 /\ nounAfter(low, captureStart(low, i)) # 0
        I == {i \in 1..Len(d) : ok(i)}
    IN  IF I = {} THEN NoMatch
        ELSE LET i == Min(I)
                 j == captureStart(low, i)
             IN  Match(SubSeq(d, j, nounAfter(low, j) - 1))

\* /(.+?)(?:\s+(?:saas|platform|app|tool|system|service))/i : from the start
\* of the description up to the first domain noun that is not its first word.
saasMatch(d) ==
    LET low == lowerWords(d)
        k == nounAfter(low, 1)
    IN  IF k = 0 THEN NoMatch ELSE Match(SubSeq(d, 1, k - 1))

isStopWord(w) == toLowerCase(w) \in stopWords

filterStopWords(ws) == SelectSeq(ws, LAMBDA w : ~isStopWord(w))

\* The fallback: the significant (non-stop) words of the description.
significantWords(d) == filterStopWords(d)

\* A cascade without the significant-words fallback.
patternOrderNoFallback == <<"named", "build", "domain">>

\* A cascade that tries the build pattern before the explicit name.
patternOrderBuildFirst == <<"build", "named", "domain", "fallback">>

\* Priority order of the cascade.
patternOrder == <<"named", "build", "domain", "fallback">>

\* What one pattern of the cascade yields on a description: whether it
\* matched and the name it gives.  The build and domain patterns filter
\* stop words out of their capture.
runPattern(p, d) ==
    CASE p = "named" -> [matched |-> namedMatch(d).matched, name |-> namedMatch(d).capture]
      [] p = "build" -> [matched |-> buildMatch(d).matched,
                         name |-> filterStopWords(buildMatch(d).capture)]
      [] p = "domain" -> [matched |-> saasMatch(d).matched,
                          name |-> filterStopWords(saasMatch(d).capture)]
      [] OTHER -> [matched |-> TRUE, name |-> significantWords(d)]

(***************************************************************************)
(* extractEntities: the entityPatterns catalog and keyword matching.       *)
(***************************************************************************)
\* The entity kinds of the catalog, in the order extractEntities visits them.
entityOrder == <<"Invoice", "Client", "Product", "Order", "Project", "Task",
                 "TimeEntry", "Contract", "Report", "Document">>

entityNames == Range(entityOrder)

InvoiceKeywords == {"invoice", "invoicing", "billing", "bill"}
TaskKeywords == {"task", "todo", "to-do", "ticket", "issue", "card", "story"}
ContractKeywords == {"contract", "contracts", "agreement", "agreements", "nda"}

\* The keywords of the catalog entries whose body the parser's documentation
\* elides ("Client: { ... }"): the lower-case name of the kind, its plural,
\* and for Client a synonym.
elidedKeywords(n) ==
    CASE n = "Client" -> {"client", "clients", "customer"}
      [] n = "Product" -> {"product", "products"}
      [] n = "Order" -> {"order", "orders"}
      [] n = "Project" -> {"project", "projects"}
      [] n = "TimeEntry" -> {"timesheet"}
      [] n = "Report" -> {"report", "reports"}
      [] OTHER -> {"document", "documents"}

\* entityPatterns[name].keywords
keywordsOf(n) ==
    CASE n = "Invoice" -> InvoiceKeywords
      [] n = "Task" -> TaskKeywords
      [] n = "Contract" -> ContractKeywords
      [] OTHER -> elidedKeywords(n)

Field(n, t) == [name |-> n, type |-> t]

ContractFields ==
    <<Field("title", "string"), Field("status", "enum"), Field("value", "float"),
      Field("currency", "string"), Field("signedAt", "datetime"),
      Field("expiresAt", "datetime"), Field("notes", "text")>>

ReportFields ==
    <<Field("title", "string"), Field("type", "enum"), Field("data", "json"),
      Field("generatedAt", "datetime")>>

DocumentFields ==
    <<Field("title", "string"), Field("type", "enum"), Field("url", "string"),
      Field("size", "int")>>

\* An Invoice entry that declares the creation timestamp itself.
InvoiceFieldsStamped ==
    <<Field("number", "string"), Field("taxRate", "float"), Field("discount", "float"),
      Field("createdAt", "datetime")>>

InvoiceFields ==
    <<Field("number", "string"), Field("taxRate", "float"), Field("discount", "float")>>

\* The fields of the catalog entries whose body the parser's documentation elides.
elidedFields(n) ==
    IF n = "Task" THEN <<Field("title", "string")>> ELSE <<Field("name", "string")>>

\* entityPatterns[name].fields
fieldsOf(n) ==
    CASE n = "Contract" -> ContractFields
      [] n = "Report" -> ReportFields
      [] n = "Document" -> DocumentFields
      [] n = "Invoice" -> InvoiceFields
      [] OTHER -> elidedFields(n)

\* entity.slug: the kebab-case of the PascalCase name
slugOf(n) ==
    CASE n = "Invoice" -> "invoice"
      [] n = "Client" -> "client"
      [] n = "Product" -> "product"
      [] n = "Order" -> "order"
      [] n = "Project" -> "project"
      [] n = "Task" -> "task"
      [] n = "TimeEntry" -> "time-entry"
      [] n = "Contract" -> "contract"
      [] n = "Report" -> "report"
      [] OTHER -> "document"

\* An extractor that adds the reserved id field to the catalog's field list.
EntityWithId(n, facing) ==
    [name |-> n, slug |-> slugOf(n), fields |-> <<Field("id", "string")>> \o fieldsOf(n),
     relationships |-> <<>>, isUserFacing |-> facing]

Entity(n, facing) ==
    [name |-> n, slug |-> slugOf(n), fields |-> fieldsOf(n), relationships |-> <<>>,
     isUserFacing |-> facing]

\* A keyword scan that forgets to lower-case the description.
scanWordsRaw(d) == Range(d)

\* The words the keyword scan sees: the lower-cased description.
scanWords(d) == Range(lowerWords(d))

\* Whether an entity kind is detected: one of its keywords occurs.
detects(n, d) == keywordsOf(n) \cap scanWords(d) # {}

\* The detected kinds, in catalog order, before relationships are added.
\* A scan that adds an entity for every keyword occurrence.
matchEntitiesPerKeyword(d) ==
    LET ws == SelectSeq(lowerWords(d), LAMBDA w : \E n \in entityNames : w \in keywordsOf(n))
    IN  [i \in 1..Len(ws) |->
            Entity(CHOOSE n \in entityNames : ws[i] \in keywordsOf(n), TRUE)]

matchEntities(d) ==
    LET hit == SelectSeq(entityOrder, LAMBDA n : detects(n, d))
    IN  [i \in 1..Len(hit) |-> Entity(hit[i], TRUE)]

(***************************************************************************)
(* addRelationships: the relationshipMap and bidirectional wiring.         *)
(***************************************************************************)
\* relationshipMap[name]: the kinds an entity belongs to (the key holds the FK)
relationshipMap(n) ==
    CASE n = "Invoice" -> <<"Client", "Document">>
      [] n = "Order" -> <<"Client", "Product">>
      [] n = "Task" -> <<"Project">>
      [] n = "Contract" -> <<"Client">>
      [] n = "TimeEntry" -> <<"Project", "Task">>
      [] OTHER -> <<>>

Rel(k, t) == [type |-> k, target |-> t]

namesOf(ents) == [i \in 1..Len(ents) |-> ents[i].name]

\* A resolver that wires the belongsTo side and forgets the back-relation.
createBelongsToOnly(ents, src, tgt) ==
    [i \in 1..Len(ents) |->
        LET e == ents[i]
        IN  IF e.name = src
            THEN [e EXCEPT !.relationships = Append(@, Rel("belongsTo", tgt))]
            ELSE e]

\* One entry of the map: belongsTo on the source, hasMany on the target.
createRelationship(ents, src, tgt) ==
    [i \in 1..Len(ents) |->
        LET e == ents[i]
            r1 == IF e.name = src
                  THEN Append(e.relationships, Rel("belongsTo", tgt))
                  ELSE e.relationships
            r2 == IF e.name = tgt THEN Append(r1, Rel("hasMany", src)) ELSE r1
        IN  [e EXCEPT !.relationships = r2]]

\* A resolver that wires every entry of the map, detected target or not.
targetAssumed(ents, tgt) == TRUE

\* A relationship is created only when its target was detected as well.
targetDetected(ents, tgt) == tgt \in Range(namesOf(ents))

RECURSIVE wireTargets(_, _, _)
wireTargets(ents, src, tgts) ==
    IF tgts = <<>> THEN ents
    ELSE LET next == IF targetDetected(ents, Head(tgts))
                     THEN createRelationship(ents, src, Head(tgts))
                     ELSE ents
         IN  wireTargets(next, src, Tail(tgts))

NoRelation == [source |-> "", target |-> ""]

\* The table the resolver consults: relationshipMap with the added entry.
tableTargets(n) ==
    relationshipMap(n) \o (IF addedRelation.source = n THEN <<addedRelation.target>> ELSE <<>>)

RECURSIVE wireFrom(_, _)
wireFrom(ents, i) ==
    IF i > Len(ents) THEN ents
    ELSE wireFrom(wireTargets(ents, ents[i].name, tableTargets(ents[i].name)), i + 1)

\* A resolver that takes any target name for a kind of the catalog.
anyKind(t) == TRUE

\* Whether a target name of the table is a kind of the closed catalog.
inCatalog(t) == t \in entityNames

\* The targets, outside the catalog, of the table entries of the detected entities.
outsideCatalog(ents) ==
    {t \in UNION {Range(tableTargets(ents[i].name)) : i \in 1..Len(ents)} : ~inCatalog(t)}

addRelationships(ents) == wireFrom(ents, 1)

extractEntities(d) == addRelationships(matchEntities(d))

(***************************************************************************)
(* extractFeatures, extractBillingPlans, generatePages.                    *)
(***************************************************************************)
featurePatterns ==
    <<[keywords |-> {"export", "download", "pdf"}, name |-> "PDF Export"],
      [keywords |-> {"two-factor", "2fa", "mfa", "authenticator"},
       name |-> "Two-Factor Authentication"]>>

extractFeatures(d) ==
    LET hit == SelectSeq(featurePatterns, LAMBDA f : f.keywords \cap scanWords(d) # {})
    IN  [i \in 1..Len(hit) |-> hit[i].name]

Plan(n, s, p, h) == [name |-> n, slug |-> s, price |-> p, highlighted |-> h]

\* The schema defaults: the three tiers every generated application ships with.
DefaultBillingPlans ==
    <<Plan("Starter", "starter", 29, FALSE), Plan("Pro", "pro", 79, TRUE),
      Plan("Enterprise", "enterprise", 199, FALSE)>>

SelfHostedPlans ==
    <<Plan("Cloud", "cloud", 99, FALSE), Plan("Enterprise", "enterprise", 499, TRUE)>>

FreemiumPlans ==
    <<Plan("Free", "free", 0, FALSE), Plan("Pro", "pro", 79, TRUE),
      Plan("Enterprise", "enterprise", 199, FALSE)>>

\* lower.includes('free tier'): the two words side by side
includesFreeTier(d) ==
    \E i \in 1..(Len(d) - 1) : lowerWords(d)[i] = "free" /\ lowerWords(d)[i + 1] = "tier"

\* extractBillingPlans: undefined means "use schema defaults"
extractBillingPlans(d) ==
    IF "enterprise" \in scanWords(d) /\ "self-hosted" \in scanWords(d)
    THEN Defined(SelfHostedPlans)
    ELSE IF includesFreeTier(d) \/ "freemium" \in scanWords(d) THEN Defined(FreemiumPlans)
    ELSE Undefined

\* A parser whose undefined billingPlans is never filled in.
withoutDefaults(plans) == plans.plans

\* The schema default fills in a billingPlans the parser left undefined.
withDefaults(plans) == IF plans.defined THEN plans.plans ELSE DefaultBillingPlans

\* generatePages: deterministic from the entities
generatePages(ents) ==
    <<"/dashboard">> \o [i \in 1..Len(ents) |-> "/dashboard/" \o ents[i].slug \o "s"]

(***************************************************************************)
(* generate(spec): the fixed global files, then the entity loop.           *)
(***************************************************************************)
File(p, c) == [path |-> p, content |-> c]

\* The helpers template.ts registers.
HelperNames ==
    {"eq", "neq", "lowercase", "uppercase", "capitalize", "camelCase", "pascalCase",
     "kebabCase", "pluralize", "prismaType", "tsType", "inputType", "json", "jsonInline",
     "join", "length", "concat", "substring", "and", "or", "not", "fileHeader", "ifCond",
     "first", "last", "includes", "now"}

ToolVersion == "1.0.0"

\* No build has captured a context yet.
NoCtx == [entity |-> None, timestamp |-> 0, version |-> "<none>"]

\* The global context { spec, timestamp, version }.
buildCtx(ts, v) == [entity |-> None, timestamp |-> ts, version |-> v]

\* An entity context built afresh, with a timestamp of its own.
entityCtxRestamped(c, e) == [entity |-> e.name, timestamp |-> clock, version |-> c.version]

\* const entityCtx = { ...ctx, entity }
entityCtx(c, e) == [c EXCEPT !.entity = e.name]

\* Object.assign(ctx, { entity }): the entity is written into the one
\* context object, which keeps it.
ctxAssigned(c, e) == [c EXCEPT !.entity = e.name]

\* What { ...ctx, entity } leaves of ctx: the spread copies, ctx is as it was.
ctxAfterSpread(c, e) == c

\* A now helper that reads the wall clock.
nowWallClock(c) == clock

\* The now helper: the timestamp of the context.
now(c) == c.timestamp

\* {{fileHeader}}: "// Generated by LFG..." with the timestamp (and version).
fileHeader(c) == [timestamp |-> c.timestamp, version |-> c.version]

\* render(template, ctx): the text depends on the template, on the entity
\* of the context (None in the global context), and, through fileHeader and
\* now, on the generation metadata.
render(template, c) ==
    [template |-> template, entity |-> c.entity, header |-> fileHeader(c), now |-> now(c)]

\* The files generated once, whatever the entities are.
GlobalPaths ==
    <<"prisma/schema.prisma",
      "src/lib/utils.ts",
      "src/app/(dashboard)/dashboard/page.tsx",
      "src/app/(dashboard)/dashboard/settings/page.tsx",
      "src/app/(dashboard)/dashboard/team/page.tsx",
      "src/app/api/webhooks/stripe/route.ts">>

\* A template is named after its output path with .hbs appended.
globalTemplate(i) == GlobalPaths[i] \o ".hbs"

globalFile(i, c) == File(GlobalPaths[i], render(globalTemplate(i), c))

\* A loop that builds the page directory without the entity's slug.
basePathNoSlug(slug) == "src/app/(dashboard)/dashboard/" \o "s"

\* Entity pages and actions live at src/app/(dashboard)/dashboard/{slug}s/
basePath(slug) == "src/app/(dashboard)/dashboard/" \o slug \o "s"

\* Entity API routes live at src/app/api/v1/{slug}s/
apiPath(slug) == "src/app/api/v1/" \o slug \o "s"

\* A loop body that pushes the detail page before the new-entity form.
entityTemplatesDetailFirst ==
    <<"list", "detail", "new", "edit", "actions", "api-collection", "api-item">>

\* The per-entity templates, in the order the loop body pushes them.
entityTemplates ==
    <<"list", "new", "detail", "edit", "actions", "api-collection", "api-item">>

entityPath(slug, t) ==
    CASE t = "list" -> basePath(slug) \o "/page.tsx"
      [] t = "new" -> basePath(slug) \o "/new/page.tsx"
      [] t = "detail" -> basePath(slug) \o "/[id]/page.tsx"
      [] t = "edit" -> basePath(slug) \o "/[id]/edit/page.tsx"
      [] t = "actions" -> basePath(slug) \o "/actions.ts"
      [] t = "api-collection" -> apiPath(slug) \o "/route.ts"
      [] OTHER -> apiPath(slug) \o "/[id]/route.ts"

entityFile(e, k, c) ==
    File(entityPath(e.slug, entityTemplates[k]), render(entityTemplates[k], entityCtx(c, e)))

\* A loop without the isUserFacing test.
emitsFilesAlways(e) == TRUE

\* if (entity.isUserFacing) { ... }
emitsFiles(e) == e.isUserFacing

pathsOf(fs) == [i \in 1..Len(fs) |-> fs[i].path]

\* A path already in the manifest is a collision.
collides(fs, f) == f.path \in Range(pathsOf(fs))

(***************************************************************************)
(* The type-mapping tables behind the prismaType, tsType and inputType     *)
(* helpers.                                                                *)
(***************************************************************************)
\* LFG field types
FieldTypes == {"string", "text", "int", "float", "boolean", "datetime", "enum", "json"}

\* Field type -> Prisma type
prismaTypes ==
    [t \in {"string", "text", "int", "float", "boolean", "datetime", "enum", "json"} |->
        CASE t \in {"string", "text", "enum"} -> "String"
          [] t = "int" -> "Int"
          [] t = "float" -> "Float"
          [] t = "boolean" -> "Boolean"
          [] t = "datetime" -> "DateTime"
          [] OTHER -> "Json"]

\* Field type -> TS type
tsTypes ==
    [t \in {"string", "text", "int", "float", "boolean", "datetime", "json"} |->
        CASE t \in {"string", "text"} -> "string"
          [] t \in {"int", "float"} -> "number"
          [] t = "boolean" -> "boolean"
          [] t = "datetime" -> "Date"
          [] OTHER -> "Record[string,unknown]"]

\* Field type -> HTML input
inputTypes ==
    [t \in {"string", "text", "int", "float", "boolean", "datetime", "enum"} |->
        CASE t = "string" -> "text"
          [] t = "text" -> "textarea"
          [] t \in {"int", "float"} -> "number"
          [] t = "boolean" -> "checkbox"
          [] t = "datetime" -> "datetime-local"
          [] OTHER -> "select"]

TypeTables == {"prisma", "ts", "input"}

tableOf(tb) ==
    CASE tb = "prisma" -> prismaTypes
      [] tb = "ts" -> tsTypes
      [] OTHER -> inputTypes

NoLookup == [made |-> FALSE, table |-> "", entity |-> None, field |-> "", type |-> "",
             found |-> FALSE, value |-> ""]

\* {{prismaType type}}, {{tsType type}}, {{inputType type}} on a field
lookupType(tb, e, f) ==
    [made |-> TRUE, table |-> tb, entity |-> e.name, field |-> f.name, type |-> f.type,
     found |-> f.type \in DOMAIN tableOf(tb),
     value |-> IF f.type \in DOMAIN tableOf(tb) THEN tableOf(tb)[f.type] ELSE ""]

\* Which fields a template looks up: the schema template every field; the
\* form templates, of user-facing entities, the fields that are not
\* rendered as select, textarea or checkbox.
looksUp(tb, e, f) ==
    IF tb = "input" THEN e.isUserFacing /\ f.type \notin {"enum", "text", "boolean"}
    ELSE TRUE

(***************************************************************************)
(* The registry: helpers, and the partials initTemplates() discovers.      *)
(***************************************************************************)
NoCustom == [template |-> "", helper |-> ""]

\* The helpers a template calls: fileHeader, with which every generated
\* file starts, and the one a customised template was edited to call.
helpersUsed(t) ==
    {"fileHeader"} \cup (IF customised.template = t THEN {customised.helper} ELSE {})

\* An engine that renders a call of an unknown helper as empty text.
unregisteredIgnored(t) == {}

\* Missing helper: a helper used in the template but not registered.
unregisteredIn(t) == helpersUsed(t) \ helpers

TemplateIds == Range(entityTemplates) \cup {globalTemplate(i) : i \in 1..Len(GlobalPaths)}

\* The templates directory as shipped, or with one template edited to call myHelper.
Customisations ==
    {NoCustom} \cup {[template |-> t, helper |-> "myHelper"] : t \in TemplateIds}

PartialDirs == {"components", "layouts"}
PartialNames == {"field-input", "myPartial"}

PartialFile(d, n) == [dir |-> d, name |-> n]

EmptyRegistry == [n \in {} |-> ""]

\* The partial files as shipped: one file per name.
StandardPartials == {PartialFile("components", "field-input")}

partialNamesIn(fs) == {f.name : f \in fs}

duplicatePartials(fs) == {n \in partialNamesIn(fs) : Cardinality({f \in fs : f.name = n}) > 1}

\* A loader that registers every file it discovers, components first and
\* layouts after: of two files with one name the later replaces the earlier.
loadPartialsLastWins(fs) ==
    [ok |-> TRUE,
     registry |-> [n \in partialNamesIn(fs) |->
                      IF PartialFile("layouts", n) \in fs THEN "layouts" ELSE "components"]]

\* initTemplates(): partials are discovered by file name in the two
\* directories; two files with one name are rejected.
loadPartials(fs) ==
    IF duplicatePartials(fs) # {} THEN [ok |-> FALSE, registry |-> EmptyRegistry]
    ELSE [ok |-> TRUE,
          registry |-> [n \in partialNamesIn(fs) |-> (CHOOSE f \in fs : f.name = n).dir]]

NoInfo == [helper |-> "", template |-> ""]

\* A build command that writes whatever the option says.
writesAlways(dry) == TRUE

\* Unless --dry-run, the manifest is written.
shouldWrite(dry) == ~dry

\* Unless --skip-install, the install step runs after the write.
shouldInstall(skip) == ~skip

\* A generate() that catches the exception and returns the files pushed so far.
afterThrowPartial(fs) == Returned(fs)

\* What the caller of generate() holds after an exception left it: nothing.
afterThrow(fs) == NoManifest

(***************************************************************************)
(* The state machine.                                                      *)
(***************************************************************************)
(***************************************************************************)
(* The Handlebars engine on one template: Handlebars.compile(source) lexes *)
(* and parses the source, and the compiled template renders the context.   *)
(* A template is a sequence of characters; "s" inside an expression is the *)
(* path entity.slug, whose value in the context is slugValue.              *)
(***************************************************************************)
MaxLiteral == 2

LiteralChars == {"{", "}", " ", "c"}

IdChars == {"s", "c"}

slugValue == <<"i">>

startsWith(s, p) == Len(s) >= Len(p) /\ SubSeq(s, 1, Len(p)) = p

dropN(s, n) == SubSeq(s, n + 1, Len(s))

\* The position of the first "{{" of s, or Len(s) + 1.
firstOpen(s) ==
    Min({i \in 1..(Len(s) - 1) : s[i] = "{" /\ s[i + 1] = "{"} \cup {Len(s) + 1})

\* The length of the identifier s begins with.
idRun(s) == Min({i \in 1..Len(s) : s[i] \notin IdChars} \cup {Len(s) + 1}) - 1

\* Literal text: characters around an expression that open no expression.
Literals ==
    {t \in UNION {[1..n -> LiteralChars] : n \in 0..MaxLiteral} : firstOpen(t) > Len(t)}

Separators == {<<>>, <<" ">>}

\* <form action={create{{entity.slug}}}> : text, expression, separator, "}".
templateText(pre, sep) == pre \o <<"{", "{", "s", "}", "}">> \o sep \o <<"}">>

\* An engine that would put the separating space in by itself.
RECURSIVE separated(_)
separated(t) ==
    IF Len(t) < 3 THEN t
    ELSE IF startsWith(t, <<"}", "}", "}">>)
         THEN <<"}", "}", " ">> \o separated(dropN(t, 2))
         ELSE <<Head(t)>> \o separated(Tail(t))

\* The source handed to the lexer is the template file's text.
asWritten(t) == t

Token(type, text) == [type |-> type, text |-> text]

\* One rule of the lexer: the tokens it emits, what is left, and its state.
lexStep(mode, rest) ==
    LET emit(toks, n, m) == [tokens |-> toks, rest |-> dropN(rest, n), mode |-> m]
    IN  IF mode = "content"
        THEN LET k == firstOpen(rest)
             IN  IF k = 1 THEN emit(<<>>, 0, "mu")
                 ELSE emit(<<Token("CONTENT", SubSeq(rest, 1, k - 1))>>, k - 1, "content")
        ELSE IF startsWith(rest, <<"{", "{", "{">>)
             THEN emit(<<Token("OPEN_UNESCAPED", <<>>)>>, 3, "mu")
        ELSE IF startsWith(rest, <<"{", "{">>)
             THEN emit(<<Token("OPEN", <<>>)>>, 2, "mu")
        ELSE IF startsWith(rest, <<"}", "}", "}">>)
             THEN emit(<<Token("CLOSE_UNESCAPED", <<>>)>>, 3, "content")
        ELSE IF startsWith(rest, <<"}", "}">>)
             THEN emit(<<Token("CLOSE", <<>>)>>, 2, "content")
        ELSE IF Head(rest) = " " THEN emit(<<>>, 1, "mu")
        ELSE IF idRun(rest) > 0
             THEN emit(<<Token("ID", SubSeq(rest, 1, idRun(rest)))>>, idRun(rest), "mu")
        ELSE emit(<<Token("INVALID", <<Head(rest)>>)>>, 1, "mu")

typeAt(toks, k) == IF k > Len(toks) THEN "EOF" ELSE toks[k].type

closeOf(open) == IF open = "OPEN" THEN "CLOSE" ELSE "CLOSE_UNESCAPED"

\* The number of ID tokens toks begins with.
idTokens(toks) == Min({i \in 1..Len(toks) : toks[i].type # "ID"} \cup {Len(toks) + 1}) - 1

\* program : statement* ; statement : CONTENT | OPEN ID+ CLOSE
\*                                  | OPEN_UNESCAPED ID+ CLOSE_UNESCAPED
RECURSIVE hbsParse(_, _)
hbsParse(toks, prog) ==
    IF toks = <<>> THEN [ok |-> TRUE, program |-> prog, expecting |-> "", got |-> ""]
    ELSE IF Head(toks).type = "CONTENT"
         THEN hbsParse(Tail(toks),
                       Append(prog, [kind |-> "content", text |-> Head(toks).text]))
    ELSE LET body == Tail(toks)
             n == idTokens(body)
             close == closeOf(Head(toks).type)
             fail(want) == [ok |-> FALSE, program |-> <<>>, expecting |-> want,
                            got |-> typeAt(body, n + 1)]
         IN  IF n = 0 THEN fail("ID")
             ELSE IF typeAt(body, n + 1) # close THEN fail(close)
             ELSE hbsParse(dropN(body, n + 1),
                           Append(prog, [kind |-> "mustache", text |-> body[1].text]))

\* The value of a path in the context: entity.slug, or nothing.
lookupPath(path) == IF path = <<"s">> THEN slugValue ELSE <<>>

RECURSIVE hbsRender(_)
hbsRender(prog) ==
    IF prog = <<>> THEN <<>>
    ELSE (IF Head(prog).kind = "content" THEN Head(prog).text
          ELSE lookupPath(Head(prog).text)) \o hbsRender(Tail(prog))

NoTemplate ==
    [pc |-> "idle", pre |-> <<>>, sep |-> <<>>, template |-> <<>>, rest |-> <<>>,
     mode |-> "content", tokens |-> <<>>, program |-> <<>>, out |-> <<>>,
     expecting |-> "", got |-> ""]

\* Handlebars.compile(source)
Compile(pre, sep) ==
    [NoTemplate EXCEPT !.pc = "lex", !.pre = pre, !.sep = sep,
                       !.template = asWritten(templateText(pre, sep)),
                       !.rest = asWritten(templateText(pre, sep))]

ParseInit ==
    /\ pc = "name"
    /\ tried = <<>>
    /\ appName = <<>>
    /\ entities = <<>>
    /\ features = <<>>
    /\ billingPlans = <<>>
    /\ pages = <<>>

GenInit ==
    /\ files = <<>>
    /\ gi = 0
    /\ ei = 0
    /\ ti = 0
    /\ manifest = NoManifest
    /\ error = "none"
    /\ written = {}
    /\ installed = FALSE
    /\ ctx = NoCtx
    /\ errorInfo = NoInfo
    /\ dryRun = FALSE
    /\ skipInstall = FALSE
    /\ helpers = {}
    /\ partials = EmptyRegistry

\* The tool as shipped, in a process that has run no build yet.
EnvInit ==
    /\ clock = 0
    /\ version = ToolVersion
    /\ hbs = NoTemplate
    /\ customised = NoCustom
    /\ partialFiles = StandardPartials
    /\ previous = NoManifest
    /\ lookup = NoLookup
    /\ other = NoInvocation
    /\ webhook = NoRequest
    /\ AppInit

Init ==
    /\ description \in Descriptions
    /\ ParseInit
    /\ addedRelation = NoRelation
    /\ GenInit
    /\ EnvInit

\* One step of extractAppName: run the next pattern of the cascade; a match
\* gives the name and ends the cascade.
TryPattern ==
    /\ pc = "name"
    /\ Len(tried) < Len(patternOrder)
    /\ LET p == patternOrder[Len(tried) + 1]
           r == runPattern(p, description)
       IN  /\ tried' = Append(tried, p)
           /\ appName' = IF r.matched THEN r.name ELSE appName
           /\ pc' = IF r.matched THEN "entities" ELSE pc
    /\ UNCHANGED <<description, entities, features, billingPlans, pages>>
    /\ UNCHANGED <<genVars, envVars>>

ExtractEntities ==
    /\ pc = "entities"
    /\ IF outsideCatalog(matchEntities(description)) # {}
       THEN /\ pc' = "failed"
            /\ error' = "RelationshipResolutionError"
            /\ entities' = entities
       ELSE /\ entities' = extractEntities(description)
            /\ pc' = "features"
            /\ error' = error
    /\ UNCHANGED <<description, tried, appName, features, billingPlans, pages>>
    /\ UNCHANGED <<files, gi, ei, ti, manifest, written, installed>>
    /\ UNCHANGED <<ctx, errorInfo, dryRun, skipInstall, helpers, partials>>
    /\ UNCHANGED envVars

ExtractFeatures ==
    /\ pc = "features"
    /\ features' = extractFeatures(description)
    /\ pc' = "billing"
    /\ UNCHANGED <<description, tried, appName, entities, billingPlans, pages>>
    /\ UNCHANGED <<genVars, envVars>>

ExtractBillingPlans ==
    /\ pc = "billing"
    /\ billingPlans' = withDefaults(extractBillingPlans(description))
    /\ pc' = "pages"
    /\ UNCHANGED <<description, tried, appName, entities, features, pages>>
    /\ UNCHANGED <<genVars, envVars>>

GeneratePages ==
    /\ pc = "pages"
    /\ pages' = generatePages(entities)
    /\ pc' = "parsed"
    /\ UNCHANGED <<description, tried, appName, entities, features, billingPlans>>
    /\ UNCHANGED <<genVars, envVars>>

\* An exception leaves generate(): its locals (files, the loop positions) are gone.
Throw(kind, info) ==
    /\ pc' = "failed"
    /\ error' = kind
    /\ errorInfo' = info
    /\ manifest' = afterThrow(files)
    /\ files' = <<>>
    /\ gi' = 0
    /\ ei' = 0
    /\ ti' = 0

\* generate() begins with the context c: the helpers are those template.ts
\* registered, initTemplates() loads the partials, files is empty.
Begin(c) ==
    /\ helpers' = HelperNames
    /\ LET l == loadPartials(partialFiles)
       IN  IF l.ok
           THEN /\ partials' = l.registry
                /\ ctx' = c
                /\ files' = <<>>
                /\ gi' = 1
                /\ ei' = 0
                /\ ti' = 0
                /\ manifest' = NoManifest
                /\ pc' = "global"
                /\ UNCHANGED <<error, errorInfo>>
           ELSE /\ Throw("DuplicatePartialError", NoInfo)
                /\ UNCHANGED <<partials, ctx>>

\* generate(spec): the timestamp and the version are captured here, once.
StartGenerate ==
    /\ pc = "parsed"
    /\ Begin(buildCtx(clock, version))
    /\ UNCHANGED <<description, tried, written, installed, dryRun, skipInstall>>
    /\ UNCHANGED <<specVars, envVars>>

\* How a render call and its push end: "none", or the kind of the error thrown.
renderError(t, f, ok) ==
    IF ~ok THEN "render"
    ELSE IF unregisteredIn(t) # {} THEN "HelperNotFoundError"
    ELSE IF collides(files, f) THEN "collision"
    ELSE "none"

\* What the error names: the template path, and the helper that is missing.
renderErrorInfo(t, kind) ==
    [helper |-> IF kind = "HelperNotFoundError"
                THEN CHOOSE h \in unregisteredIn(t) : TRUE ELSE "",
     template |-> t]

\* files.push({ path, content: render(template, ctx) }) for a global file
RenderGlobal ==
    /\ pc = "global"
    /\ \E ok \in BOOLEAN :
          LET t == globalTemplate(gi)
              f == globalFile(gi, ctx)
              k == renderError(t, f, ok)
          IN  IF k # "none" THEN Throw(k, renderErrorInfo(t, k))
              ELSE /\ files' = Append(files, f)
                   /\ gi' = gi + 1
                   /\ pc' = IF gi = Len(GlobalPaths) THEN "entity" ELSE "global"
                   /\ ei' = IF gi = Len(GlobalPaths) THEN 1 ELSE ei
                   /\ UNCHANGED <<ti, manifest, error, errorInfo>>
    /\ UNCHANGED <<description, tried, written, installed>>
    /\ UNCHANGED <<ctx, dryRun, skipInstall, helpers, partials>>
    /\ UNCHANGED <<specVars, envVars>>

\* for (const entity of spec.entities) { if (entity.isUserFacing) { ...
EntityLoop ==
    /\ pc = "entity"
    /\ ti = 0
    /\ ei <= Len(entities)
    /\ IF emitsFiles(entities[ei])
       THEN ti' = 1 /\ ei' = ei
       ELSE ti' = 0 /\ ei' = ei + 1
    /\ UNCHANGED <<description, pc, tried, files, gi, manifest, error, written, installed>>
    /\ UNCHANGED <<ctx, errorInfo, dryRun, skipInstall, helpers, partials>>
    /\ UNCHANGED <<specVars, envVars>>

\* files.push({ path, content: render(template, entityCtx) }) in the loop body
RenderEntity ==
    /\ pc = "entity"
    /\ ti >= 1
    /\ \E ok \in BOOLEAN :
          LET t == entityTemplates[ti]
              f == entityFile(entities[ei], ti, ctx)
              k == renderError(t, f, ok)
          IN  IF k # "none" THEN Throw(k, renderErrorInfo(t, k))
              ELSE /\ files' = Append(files, f)
                   /\ ti' = IF ti = Len(entityTemplates) THEN 0 ELSE ti + 1
                   /\ ei' = IF ti = Len(entityTemplates) THEN ei + 1 ELSE ei
                   /\ UNCHANGED <<pc, gi, manifest, error, errorInfo>>
    /\ ctx' = ctxAfterSpread(ctx, entities[ei])
    /\ UNCHANGED <<description, tried, written, installed>>
    /\ UNCHANGED <<dryRun, skipInstall, helpers, partials>>
    /\ UNCHANGED <<specVars, envVars>>

\* return files
Return ==
    /\ pc = "entity"
    /\ ti = 0
    /\ ei > Len(entities)
    /\ manifest' = Returned(files)
    /\ pc' = "returned"
    /\ UNCHANGED <<description, tried, files, gi, ei, ti, error, written, installed>>
    /\ UNCHANGED <<ctx, errorInfo, dryRun, skipInstall, helpers, partials>>
    /\ UNCHANGED <<specVars, envVars>>

\* The build command: unless --dry-run, write the manifest to the output directory.
WriteFiles ==
    /\ pc = "returned"
    /\ \E dry \in BOOLEAN :
          /\ dryRun' = dry
          /\ written' = IF shouldWrite(dry) THEN Range(pathsOf(manifest.files)) ELSE written
          /\ pc' = IF dry THEN "done" ELSE "written"
    /\ UNCHANGED <<description, tried, files, gi, ei, ti, manifest, error, installed>>
    /\ UNCHANGED <<ctx, errorInfo, skipInstall, helpers, partials>>
    /\ UNCHANGED <<specVars, envVars>>

\* The build command: unless --skip-install, install after the write.
Install ==
    /\ pc = "written"
    /\ \E skip \in BOOLEAN :
          /\ skipInstall' = skip
          /\ installed' = shouldInstall(skip)
    /\ pc' = "done"
    /\ UNCHANGED <<description, tried, files, gi, ei, ti, manifest, error, written>>
    /\ UNCHANGED <<ctx, errorInfo, dryRun, helpers, partials>>
    /\ UNCHANGED <<specVars, envVars>>

ParseNext ==
    \/ TryPattern
    \/ ExtractEntities
    \/ ExtractFeatures
    \/ ExtractBillingPlans
    \/ GeneratePages

GenNext ==
    \/ StartGenerate
    \/ RenderGlobal
    \/ EntityLoop
    \/ RenderEntity
    \/ Return
    \/ WriteFiles
    \/ Install

Next == ParseNext \/ GenNext

\* The whole build, from a description.
Spec == Init /\ [][Next]_vars

\* parse(description) alone.
SpecParse == Init /\ [][ParseNext]_vars

(***************************************************************************)
(* generate() on any Specification over the catalog: up to MaxEntities     *)
(* distinct kinds in any order, each user-facing or not, as the resolver   *)
(* leaves them.                                                            *)
(***************************************************************************)
Injective(f) == \A i, j \in DOMAIN f : f[i] = f[j] => i = j

Specifications ==
    UNION {
        {addRelationships([i \in 1..n |-> Entity(f[i], g[i])]) :
            f \in {h \in [1..n -> entityNames] : Injective(h)}, g \in [1..n -> BOOLEAN]}
        : n \in 0..MaxEntities}

InitGen ==
    /\ addedRelation = NoRelation
    /\ description = <<>>
    /\ pc = "parsed"
    /\ tried = <<>>
    /\ appName = <<"app">>
    /\ entities \in Specifications
    /\ features = <<>>
    /\ billingPlans = DefaultBillingPlans
    /\ pages = generatePages(entities)
    /\ GenInit
    /\ EnvInit

SpecGen == InitGen /\ [][GenNext]_vars

(***************************************************************************)
(* extractAppName alone, on longer descriptions over the words its         *)
(* patterns look at.                                                       *)
(***************************************************************************)
InitName ==
    /\ description \in NameDescriptions
    /\ ParseInit
    /\ addedRelation = NoRelation
    /\ GenInit
    /\ EnvInit

SpecName == InitName /\ [][TryPattern]_vars

(***************************************************************************)
(* parse() with a relationshipMap to which a developer has added an entry. *)
(***************************************************************************)
\* The table as shipped; with Contract: [..., 'Vendor'], a kind the catalog
\* does not have; with Client: ['Contract'], a kind it has.
AddedRelations ==
    {NoRelation, [source |-> "Contract", target |-> "Vendor"],
     [source |-> "Client", target |-> "Contract"]}

InitResolver ==
    /\ addedRelation \in AddedRelations
    /\ description \in Descriptions
    /\ pc = "name"
    /\ tried = <<>>
    /\ appName = <<>>
    /\ entities = <<>>
    /\ features = <<>>
    /\ billingPlans = <<>>
    /\ pages = <<>>
    /\ GenInit
    /\ EnvInit

SpecResolver == InitResolver /\ [][ParseNext]_vars

(***************************************************************************)
(* parse() on descriptions that repeat an entity in several keywords.      *)
(***************************************************************************)
InitKeywords ==
    /\ description \in KeywordDescriptions
    /\ ParseInit
    /\ addedRelation = NoRelation
    /\ GenInit
    /\ EnvInit

SpecKeywords == InitKeywords /\ [][ParseNext]_vars

(***************************************************************************)
(* generate() with a templates directory a developer has changed: one      *)
(* template may call a helper of their own, and the two partial            *)
(* directories may hold any of the files.                                  *)
(***************************************************************************)
RenderKinds == {"Invoice", "Client"}

RenderSpecifications ==
    {es \in Specifications : \A i \in 1..Len(es) : es[i].name \in RenderKinds}

PartialFileSets == SUBSET {PartialFile(d, n) : d \in PartialDirs, n \in PartialNames}

InitTemplates ==
    /\ addedRelation = NoRelation
    /\ description = <<>>
    /\ pc = "parsed"
    /\ tried = <<>>
    /\ appName = <<"app">>
    /\ entities \in RenderSpecifications
    /\ features = <<>>
    /\ billingPlans = DefaultBillingPlans
    /\ pages = generatePages(entities)
    /\ GenInit
    /\ clock = 0
    /\ version = ToolVersion
    /\ hbs = NoTemplate
    /\ customised \in Customisations
    /\ partialFiles \in PartialFileSets
    /\ previous = NoManifest
    /\ lookup = NoLookup
    /\ other = NoInvocation
    /\ webhook = NoRequest
    /\ AppInit

TemplatesNext ==
    \/ StartGenerate
    \/ RenderGlobal
    \/ EntityLoop
    \/ RenderEntity
    \/ Return

SpecTemplates == InitTemplates /\ [][TemplatesNext]_vars

(***************************************************************************)
(* Two invocations of generate() in one process, interleaved step by       *)
(* step. The running invocation's Specification, context, locals and       *)
(* result are in the variables of the build; those of the suspended one    *)
(* are in other. The registry is the process's.                            *)
(***************************************************************************)
Invocation(p, es, ps, fs, g, e, t, m, err, info, c) ==
    [active |-> TRUE, pc |-> p, entities |-> es, pages |-> ps, files |-> fs, gi |-> g,
     ei |-> e, ti |-> t, manifest |-> m, error |-> err, errorInfo |-> info, ctx |-> c]

\* An invocation that has been called and has not run a step yet.
NewInvocation(es) ==
    Invocation("parsed", es, generatePages(es), <<>>, 0, 0, 0, NoManifest, "none", NoInfo,
               NoCtx)

\* A files array that belongs to the module: the invocation that resumes
\* finds in it what the other one left.
moduleFiles(mine, theirs) == mine

\* const files = [] is a local of generate(): the invocation that resumes
\* finds its own.
resumeFiles(mine, theirs) == theirs

\* The scheduler suspends the running invocation and resumes the other.
Switch ==
    /\ other.active
    /\ other' = Invocation(pc, entities, pages, files, gi, ei, ti, manifest, error,
                           errorInfo, ctx)
    /\ pc' = other.pc
    /\ entities' = other.entities
    /\ pages' = other.pages
    /\ files' = resumeFiles(files, other.files)
    /\ gi' = other.gi
    /\ ei' = other.ei
    /\ ti' = other.ti
    /\ manifest' = other.manifest
    /\ error' = other.error
    /\ errorInfo' = other.errorInfo
    /\ ctx' = other.ctx
    /\ UNCHANGED <<description, tried, appName, features, billingPlans>>
    /\ UNCHANGED <<written, installed, dryRun, skipInstall, helpers, partials>>
    /\ UNCHANGED <<clock, toolVars, previous, lookup, webhook, appVars>>

InitConcurrent ==
    /\ addedRelation = NoRelation
    /\ description = <<>>
    /\ pc = "parsed"
    /\ tried = <<>>
    /\ appName = <<"app">>
    /\ entities \in RenderSpecifications
    /\ features = <<>>
    /\ billingPlans = DefaultBillingPlans
    /\ pages = generatePages(entities)
    /\ GenInit
    /\ clock = 0
    /\ version = ToolVersion
    /\ hbs = NoTemplate
    /\ customised = NoCustom
    /\ partialFiles = StandardPartials
    /\ previous = NoManifest
    /\ lookup = NoLookup
    /\ other \in {NewInvocation(es) : es \in RenderSpecifications}
    /\ webhook = NoRequest
    /\ AppInit

ConcurrentNext ==
    \/ Switch
    \/ StartGenerate
    \/ RenderGlobal
    \/ EntityLoop
    \/ RenderEntity
    \/ Return

SpecConcurrent == InitConcurrent /\ [][ConcurrentNext]_vars

(***************************************************************************)
(* The type lookups the templates make while rendering a Specification.    *)
(***************************************************************************)
LookupType ==
    /\ pc = "parsed"
    /\ \E tb \in TypeTables, i \in 1..Len(entities) :
          \E k \in 1..Len(entities[i].fields) :
              /\ looksUp(tb, entities[i], entities[i].fields[k])
              /\ lookup' = lookupType(tb, entities[i], entities[i].fields[k])
    /\ UNCHANGED <<description, pc, tried, specVars, genVars>>
    /\ UNCHANGED <<clock, toolVars, previous, other, webhook, appVars>>

SpecTypes == InitGen /\ [][LookupType]_vars

(***************************************************************************)
(* generate() run twice on one Specification while the wall clock          *)
(* advances: the second run is given the context of the first.             *)
(***************************************************************************)
\* Time passes.
Tick ==
    /\ clock < MaxClock
    /\ clock' = clock + 1
    /\ UNCHANGED <<description, pc, tried, specVars, genVars>>
    /\ UNCHANGED <<toolVars, previous, sideVars>>

\* generate(spec) once more, with the timestamp and version of the first
\* run injected; the caller keeps the first manifest.
GenerateAgain ==
    /\ pc = "returned"
    /\ previous = NoManifest
    /\ previous' = manifest
    /\ Begin(ctx)
    /\ UNCHANGED <<description, tried, written, installed, dryRun, skipInstall>>
    /\ UNCHANGED <<specVars, clock, toolVars, sideVars>>

InitRender ==
    /\ addedRelation = NoRelation
    /\ description = <<>>
    /\ pc = "parsed"
    /\ tried = <<>>
    /\ appName = <<"app">>
    /\ entities \in RenderSpecifications
    /\ features = <<>>
    /\ billingPlans = DefaultBillingPlans
    /\ pages = generatePages(entities)
    /\ GenInit
    /\ EnvInit

RenderNext ==
    \/ Tick
    \/ StartGenerate
    \/ RenderGlobal
    \/ EntityLoop
    \/ RenderEntity
    \/ Return
    \/ GenerateAgain

SpecRender == InitRender /\ [][RenderNext]_vars

(***************************************************************************)
(* The Stripe webhook route of the generated application: POST(req).       *)
(***************************************************************************)
HandledEvents ==
    {"checkout.session.completed", "customer.subscription.updated",
     "customer.subscription.deleted", "invoice.payment_succeeded",
     "invoice.payment_failed"}

\* The event types Stripe sends: those of the switch, and one it has no case for.
EventTypes == HandledEvents \cup {"customer.created"}

\* enum SubscriptionStatus of the Prisma schema
SubscriptionStatus == {"TRIALING", "ACTIVE", "PAST_DUE", "CANCELED", "UNPAID"}

\* subscription.status as Stripe reports it
StripeStatuses == {"trialing", "active", "past_due", "canceled", "unpaid", "incomplete"}

\* subscription.status.toUpperCase()
statusToUpperCase(st) ==
    CASE st = "active" -> "ACTIVE"
      [] st = "past_due" -> "PAST_DUE"
      [] st = "trialing" -> "TRIALING"
      [] st = "unpaid" -> "UNPAID"
      [] st = "incomplete" -> "INCOMPLETE"
      [] OTHER -> "CANCELED"

\* A status column of type String: any value is stored.
columnString(v) == TRUE

\* status SubscriptionStatus: the client rejects a value outside the enum.
columnAccepts(v) == v \in SubscriptionStatus

\* The case of the switch an event type takes; "none" when it has no case.
handlerOf(type) ==
    CASE type = "checkout.session.completed" -> "handleCheckoutCompleted"
      [] type = "customer.subscription.updated" -> "handleSubscriptionUpdated"
      [] type = "customer.subscription.deleted" -> "handleSubscriptionDeleted"
      [] type = "invoice.payment_succeeded" -> "handleInvoiceSucceeded"
      [] type = "invoice.payment_failed" -> "handleInvoiceFailed"
      [] OTHER -> "none"

\* A request as it arrives: whether constructEvent accepts its signature,
\* the event, whether the organization of the customer exists, the
\* subscription row (its status, or "none"), and whether the database and
\* Stripe calls of this request fail.
Request(valid, type, st, org, row, fails) ==
    [pc |-> "verify", sigValid |-> valid, type |-> type, stripeStatus |-> st,
     orgKnown |-> org, before |-> row, sub |-> row, fails |-> fails,
     dispatched |-> "none", threw |-> FALSE, logged |-> FALSE,
     status |-> 0, received |-> FALSE, error |-> ""]

\* The subscription row before the first event.
FirstRows == {"none", "TRIALING", "ACTIVE"}

Requests ==
    {Request(valid, type, st, org, row, fails) :
        valid \in BOOLEAN, type \in EventTypes, st \in StripeStatuses, org \in BOOLEAN,
        row \in FirstRows, fails \in BOOLEAN}

\* The next event finds the row as the last one left it.
nextRequest(w, r) == IF w.pc = "idle" THEN r ELSE [r EXCEPT !.before = w.sub, !.sub = w.sub]

\* Whether the handler throws: a failing call throws; update() of a row
\* that does not exist throws; handleCheckoutCompleted returns before any
\* further call when there is no organization; the invoice handlers call nothing.
handlerThrows(w) ==
    CASE w.dispatched = "handleCheckoutCompleted" -> w.fails
      [] w.dispatched = "handleSubscriptionUpdated" ->
             w.fails \/ w.sub = "none" \/ ~columnAccepts(statusToUpperCase(w.stripeStatus))
      [] w.dispatched = "handleSubscriptionDeleted" -> w.fails \/ w.sub = "none"
      [] OTHER -> FALSE

\* The subscription row after a handler that did not throw.
subAfter(w) ==
    CASE w.dispatched = "handleCheckoutCompleted" -> IF w.orgKnown THEN "ACTIVE" ELSE w.sub
      [] w.dispatched = "handleSubscriptionUpdated" -> statusToUpperCase(w.stripeStatus)
      [] w.dispatched = "handleSubscriptionDeleted" -> "CANCELED"
      [] OTHER -> w.sub

\* A catch block that answers 500.
rethrown(w) ==
    [w EXCEPT !.threw = TRUE, !.pc = "responded", !.status = 500,
              !.error = "Webhook processing error"]

\* catch (err) { console.error('Webhook processing error:', err); }
caught(w) == [w EXCEPT !.threw = TRUE, !.logged = TRUE, !.pc = "respond"]

buildVars == <<description, pc, tried, specVars, genVars, clock, toolVars, previous,
               lookup, other>>

\* export async function POST(req: Request)
Receive ==
    /\ webhook.pc \in {"idle", "responded"}
    /\ \E r \in Requests :
          /\ webhook.pc = "idle" \/ r.before = "none"
          /\ webhook' = nextRequest(webhook, r)
    /\ UNCHANGED <<buildVars, appVars>>

\* stripe.webhooks.constructEvent(body, sig, secret), and its catch
Verify ==
    /\ webhook.pc = "verify"
    /\ webhook' = IF webhook.sigValid THEN [webhook EXCEPT !.pc = "dispatch"]
                  ELSE [webhook EXCEPT !.pc = "responded", !.status = 400,
                                       !.error = "Invalid signature"]
    /\ UNCHANGED <<buildVars, appVars>>

\* switch (event.type)
Dispatch ==
    /\ webhook.pc = "dispatch"
    /\ webhook' = IF handlerOf(webhook.type) = "none" THEN [webhook EXCEPT !.pc = "respond"]
                  ELSE [webhook EXCEPT !.pc = "handle",
                                       !.dispatched = handlerOf(webhook.type)]
    /\ UNCHANGED <<buildVars, appVars>>

\* await handle...(event.data.object), inside the try
Handle ==
    /\ webhook.pc = "handle"
    /\ webhook' = IF handlerThrows(webhook) THEN caught(webhook)
                  ELSE [webhook EXCEPT !.sub = subAfter(webhook), !.pc = "respond"]
    /\ UNCHANGED <<buildVars, appVars>>

\* return NextResponse.json({ received: true })
Respond ==
    /\ webhook.pc = "respond"
    /\ webhook' = [webhook EXCEPT !.pc = "responded", !.status = 200, !.received = TRUE]
    /\ UNCHANGED <<buildVars, appVars>>

InitWebhook ==
    /\ description = <<>>
    /\ ParseInit
    /\ addedRelation = NoRelation
    /\ GenInit
    /\ EnvInit

WebhookNext ==
    \/ Receive
    \/ Verify
    \/ Dispatch
    \/ Handle
    \/ Respond

SpecWebhook == InitWebhook /\ [][WebhookNext]_vars

(***************************************************************************)
(* The team and settings server actions of the generated application:      *)
(* inviteMember, removeMember, updateOrganization, each a sequence of      *)
(* awaited database calls. cuid() ids are drawn from a counter.            *)
(***************************************************************************)
Orgs == {"orgX", "orgY"}

\* session.organizationId of a user without a membership: null
NoOrg == "<null>"

Emails == {"a@x", "b@y", "c@z"}

NoCustomer == "<null>"

NoMembership == [id |-> 0, userId |-> 0, organizationId |-> ""]

\* Two organizations, each with one member; c@z has no user record.
SeedDb ==
    [users |-> {[id |-> 1, email |-> "a@x"], [id |-> 2, email |-> "b@y"]},
     memberships |-> {[id |-> 3, userId |-> 1, organizationId |-> "orgX"],
                      [id |-> 4, userId |-> 2, organizationId |-> "orgY"]},
     organizations |-> [o \in Orgs |-> [name |-> "old", stripeCustomerId |-> NoCustomer]],
     nextId |-> 5]

\* A caller with a session, between calls.
IdleCall(sess) ==
    [op |-> "none", pc |-> "idle", session |-> sess, organizationId |-> "", email |-> "",
     membershipId |-> 0, name |-> "", user |-> 0, membership |-> NoMembership,
     customerId |-> NoCustomer, result |-> "none", made |-> 0, before |-> NoDb]

\* A call as it begins: the form data, and the database as it stands.
NewCall(c, op, first, org, email, mid, name) ==
    [c EXCEPT !.op = op, !.pc = first, !.organizationId = org, !.email = email,
              !.membershipId = mid, !.name = name, !.user = 0,
              !.membership = NoMembership, !.customerId = NoCustomer, !.result = "none",
              !.made = c.made + 1, !.before = db]

finish(c, r) == [c EXCEPT !.pc = "done", !.result = r]

\* !session.organizationId || session.organizationId !== organizationId
forbidden(sess, org) == sess = NoOrg \/ sess # org

\* An ownership check on the id alone.
missing(m, sess) == m = NoMembership

\* !membership || membership.organizationId !== session.organizationId
notOwned(m, sess) == m = NoMembership \/ m.organizationId # sess

\* db.user.findUnique({ where: { email } }): the id, or 0 for null
findUserByEmail(d, email) ==
    IF \E u \in d.users : u.email = email
    THEN (CHOOSE u \in d.users : u.email = email).id
    ELSE 0

\* db.membership.findUnique({ where: { id } })
findMembership(d, mid) ==
    IF \E m \in d.memberships : m.id = mid
    THEN CHOOSE m \in d.memberships : m.id = mid
    ELSE NoMembership

\* A User model without @unique on email.
emailNotUnique(d, email) == FALSE

\* email String @unique: create() of a second user with the email is rejected.
emailTaken(d, email) == \E u \in d.users : u.email = email

\* @@unique([organizationId, userId])
memberTaken(d, uid, org) ==
    \E m \in d.memberships : m.userId = uid /\ m.organizationId = org

\* const session = await requireAuth(); then the form data
CallInvite(p, max) ==
    /\ calls[p].pc \in {"idle", "done"}
    /\ calls[p].made < max
    /\ \E org \in Orgs, email \in Emails :
          calls' = [calls EXCEPT ![p] = NewCall(@, "inviteMember", "check", org, email, 0, "")]
    /\ UNCHANGED <<buildVars, webhook, db, stripe>>

CallRemove(p, max) ==
    /\ calls[p].pc \in {"idle", "done"}
    /\ calls[p].made < max
    /\ \E mid \in {m.id : m \in db.memberships} \cup {0} :
          calls' = [calls EXCEPT ![p] =
                       NewCall(@, "removeMember", "findMembership", "", "", mid, "")]
    /\ UNCHANGED <<buildVars, webhook, db, stripe>>

CallUpdate(p, max) ==
    /\ calls[p].pc \in {"idle", "done"}
    /\ calls[p].made < max
    /\ \E org \in Orgs :
          calls' = [calls EXCEPT ![p] =
                       NewCall(@, "updateOrganization", "check", org, "", 0, "new")]
    /\ UNCHANGED <<buildVars, webhook, db, stripe>>

\* if (!session.organizationId || session.organizationId !== organizationId) throw
CheckOrg(p) ==
    /\ calls[p].pc = "check"
    /\ LET c == calls[p]
       IN  calls' = [calls EXCEPT ![p] =
                        IF forbidden(c.session, c.organizationId) THEN finish(c, "Forbidden")
                        ELSE [c EXCEPT !.pc = IF c.op = "inviteMember" THEN "findUser"
                                              ELSE "update"]]
    /\ UNCHANGED <<buildVars, webhook, db, stripe>>

\* let user = await db.user.findUnique({ where: { email } })
FindUser(p) ==
    /\ calls[p].pc = "findUser"
    /\ LET u == findUserByEmail(db, calls[p].email)
       IN  calls' = [calls EXCEPT ![p] =
                        [@ EXCEPT !.user = u,
                                  !.pc = IF u = 0 THEN "createUser" ELSE "createMembership"]]
    /\ UNCHANGED <<buildVars, webhook, db, stripe>>

\* if (!user) user = await db.user.create({ data: { email, name } })
CreateUser(p) ==
    /\ calls[p].pc = "createUser"
    /\ IF emailTaken(db, calls[p].email)
       THEN /\ calls' = [calls EXCEPT ![p] = finish(@, "error")]
            /\ db' = db
       ELSE /\ db' = [db EXCEPT !.users = @ \cup {[id |-> db.nextId, email |-> calls[p].email]},
                                !.nextId = @ + 1]
            /\ calls' = [calls EXCEPT ![p] =
                            [@ EXCEPT !.user = db.nextId, !.pc = "createMembership"]]
    /\ UNCHANGED <<buildVars, webhook, stripe>>

\* await db.membership.create({ data: { userId: user.id, organizationId, role } })
CreateMembership(p) ==
    /\ calls[p].pc = "createMembership"
    /\ IF memberTaken(db, calls[p].user, calls[p].organizationId)
       THEN /\ calls' = [calls EXCEPT ![p] = finish(@, "error")]
            /\ db' = db
       ELSE /\ db' = [db EXCEPT !.memberships =
                                    @ \cup {[id |-> db.nextId, userId |-> calls[p].user,
                                             organizationId |-> calls[p].organizationId]},
                                !.nextId = @ + 1]
            /\ calls' = [calls EXCEPT ![p] = finish(@, "ok")]
    /\ UNCHANGED <<buildVars, webhook, stripe>>

\* const membership = await db.membership.findUnique({ where: { id: membershipId } })
FindMembership(p) ==
    /\ calls[p].pc = "findMembership"
    /\ LET c == calls[p]
       IN  calls' = [calls EXCEPT ![p] =
                        [c EXCEPT !.membership = findMembership(db, c.membershipId),
                                  !.pc = "checkMembership"]]
    /\ UNCHANGED <<buildVars, webhook, db, stripe>>

\* if (!membership || membership.organizationId !== session.organizationId) throw
CheckMembership(p) ==
    /\ calls[p].pc = "checkMembership"
    /\ LET c == calls[p]
       IN  calls' = [calls EXCEPT ![p] =
                        IF notOwned(c.membership, c.session) THEN finish(c, "Forbidden")
                        ELSE [c EXCEPT !.pc = "delete"]]
    /\ UNCHANGED <<buildVars, webhook, db, stripe>>

\* await db.membership.delete({ where: { id: membershipId } })
DeleteMembership(p) ==
    /\ calls[p].pc = "delete"
    /\ IF findMembership(db, calls[p].membershipId) = NoMembership
       THEN /\ calls' = [calls EXCEPT ![p] = finish(@, "error")]
            /\ db' = db
       ELSE /\ db' = [db EXCEPT !.memberships =
                                    {m \in @ : m.id # calls[p].membershipId}]
            /\ calls' = [calls EXCEPT ![p] = finish(@, "ok")]
    /\ UNCHANGED <<buildVars, webhook, stripe>>

\* await db.organization.update({ where: { id: organizationId }, data: { name } })
UpdateOrganization(p) ==
    /\ calls[p].pc = "update"
    /\ db' = [db EXCEPT !.organizations[calls[p].organizationId].name = calls[p].name]
    /\ calls' = [calls EXCEPT ![p] = finish(@, "ok")]
    /\ UNCHANGED <<buildVars, webhook, stripe>>

\* The build tool at rest, while the generated application runs.
IdleTool ==
    /\ description = <<>>
    /\ ParseInit
    /\ addedRelation = NoRelation
    /\ GenInit
    /\ clock = 0
    /\ version = ToolVersion
    /\ hbs = NoTemplate
    /\ customised = NoCustom
    /\ partialFiles = StandardPartials
    /\ previous = NoManifest
    /\ lookup = NoLookup
    /\ other = NoInvocation
    /\ webhook = NoRequest

\* One signed-in caller, of either organization or of none.
InitTeam ==
    /\ IdleTool
    /\ db = SeedDb
    /\ calls \in {[p \in {1} |-> IdleCall(sess)] : sess \in Orgs \cup {NoOrg}}
    /\ stripe = NoStripe

TeamNext ==
    \E p \in DOMAIN calls :
        \/ CallInvite(p, MaxCalls)
        \/ CallRemove(p, MaxCalls)
        \/ CallUpdate(p, MaxCalls)
        \/ CheckOrg(p)
        \/ FindUser(p)
        \/ CreateUser(p)
        \/ CreateMembership(p)
        \/ FindMembership(p)
        \/ CheckMembership(p)
        \/ DeleteMembership(p)
        \/ UpdateOrganization(p)

SpecTeam == InitTeam /\ [][TeamNext]_vars

(***************************************************************************)
(* inviteMember called by two signed-in callers at once: the awaited       *)
(* database calls of the two interleave.                                   *)
(***************************************************************************)
InitInvite ==
    /\ IdleTool
    /\ db = SeedDb
    /\ calls \in {[p \in {1, 2} |-> IdleCall(sess[p])] : sess \in [{1, 2} -> Orgs]}
    /\ stripe = NoStripe

InviteNext ==
    \E p \in DOMAIN calls :
        \/ CallInvite(p, MaxInvites)
        \/ CheckOrg(p)
        \/ FindUser(p)
        \/ CreateUser(p)
        \/ CreateMembership(p)

SpecInvite == InitInvite /\ [][InviteNext]_vars

(***************************************************************************)
(* POST /api/billing/checkout called by two signed-in members at once.     *)
(***************************************************************************)
\* The ids Stripe gives the customers it creates, in order of creation.
CustomerIds == <<"cus_1", "cus_2", "cus_3", "cus_4">>

customersOf(org) == {c \in stripe.customers : c.organizationId = org}

\* const user = await requireOrg(); the body's priceId plays no part here
CallCheckout(p, max) ==
    /\ calls[p].pc \in {"idle", "done"}
    /\ calls[p].made < max
    /\ calls' = [calls EXCEPT ![p] =
                    NewCall(@, "checkout", "findOrg", calls[p].session, "", 0, "")]
    /\ UNCHANGED <<buildVars, webhook, db, stripe>>

\* let org = await db.organization.findUnique(...); if (!org) return 404;
\* let customerId = org.stripeCustomerId
FindOrg(p) ==
    /\ calls[p].pc = "findOrg"
    /\ LET c == calls[p]
       IN  calls' = [calls EXCEPT ![p] =
                        IF c.organizationId \notin DOMAIN db.organizations
                        THEN finish(c, "404")
                        ELSE LET id == db.organizations[c.organizationId].stripeCustomerId
                             IN  [c EXCEPT !.customerId = id,
                                           !.pc = IF id = NoCustomer THEN "createCustomer"
                                                  ELSE "createSession"]]
    /\ UNCHANGED <<buildVars, webhook, db, stripe>>

\* const customer = await stripe.customers.create(...); customerId = customer.id
CreateCustomer(p) ==
    /\ calls[p].pc = "createCustomer"
    /\ Cardinality(stripe.customers) < Len(CustomerIds)
    /\ LET id == CustomerIds[Cardinality(stripe.customers) + 1]
       IN  /\ stripe' = [stripe EXCEPT !.customers =
                             @ \cup {[id |-> id, organizationId |-> calls[p].organizationId]}]
           /\ calls' = [calls EXCEPT ![p] =
                            [@ EXCEPT !.customerId = id, !.pc = "storeCustomer"]]
    /\ UNCHANGED <<buildVars, webhook, db>>

\* await db.organization.update({ data: { stripeCustomerId: customerId } })
StoreCustomer(p) ==
    /\ calls[p].pc = "storeCustomer"
    /\ db' = [db EXCEPT !.organizations[calls[p].organizationId].stripeCustomerId =
                            calls[p].customerId]
    /\ calls' = [calls EXCEPT ![p] = [@ EXCEPT !.pc = "createSession"]]
    /\ UNCHANGED <<buildVars, webhook, stripe>>

\* const session = await stripe.checkout.sessions.create({ customer: customerId, ... })
CreateSession(p) ==
    /\ calls[p].pc = "createSession"
    /\ stripe' = [stripe EXCEPT !.sessions =
                      @ \cup {[customer |-> calls[p].customerId,
                               organizationId |-> calls[p].organizationId]}]
    /\ calls' = [calls EXCEPT ![p] = finish(@, "ok")]
    /\ UNCHANGED <<buildVars, webhook, db>>

InitCheckout ==
    /\ IdleTool
    /\ db = SeedDb
    /\ calls \in {[p \in {1, 2} |-> IdleCall(sess[p])] : sess \in [{1, 2} -> Orgs]}
    /\ stripe = NoStripe

CheckoutNext ==
    \E p \in DOMAIN calls :
        \/ CallCheckout(p, MaxCalls)
        \/ FindOrg(p)
        \/ CreateCustomer(p)
        \/ StoreCustomer(p)
        \/ CreateSession(p)

SpecCheckout == InitCheckout /\ [][CheckoutNext]_vars

(***************************************************************************)
(* Handlebars.compile(source) and the compiled template, step by step.     *)
(***************************************************************************)
engineRest == <<description, pc, tried, specVars, genVars, clock, version, customised,
                addedRelation, partialFiles, previous, sideVars>>

Lex ==
    /\ hbs.pc = "lex"
    /\ hbs.rest # <<>>
    /\ LET r == lexStep(hbs.mode, hbs.rest)
       IN  hbs' = [hbs EXCEPT !.tokens = @ \o r.tokens, !.rest = r.rest, !.mode = r.mode]
    /\ UNCHANGED engineRest

Parse ==
    /\ hbs.pc = "lex"
    /\ hbs.rest = <<>>
    /\ LET r == hbsParse(hbs.tokens, <<>>)
       IN  hbs' = [hbs EXCEPT !.pc = IF r.ok THEN "render" ELSE "failed",
                              !.program = r.program,
                              !.expecting = r.expecting, !.got = r.got]
    /\ UNCHANGED engineRest

Execute ==
    /\ hbs.pc = "render"
    /\ hbs' = [hbs EXCEPT !.pc = "done", !.out = hbsRender(hbs.program)]
    /\ UNCHANGED engineRest

InitEngine ==
    /\ hbs \in {Compile(pre, sep) : pre \in Literals, sep \in Separators}
    /\ addedRelation = NoRelation
    /\ description = <<>>
    /\ pc = "name"
    /\ tried = <<>>
    /\ appName = <<>>
    /\ entities = <<>>
    /\ features = <<>>
    /\ billingPlans = <<>>
    /\ pages = <<>>
    /\ GenInit
    /\ clock = 0
    /\ version = ToolVersion
    /\ customised = NoCustom
    /\ partialFiles = StandardPartials
    /\ previous = NoManifest
    /\ lookup = NoLookup
    /\ other = NoInvocation
    /\ webhook = NoRequest
    /\ AppInit

EngineNext == Lex \/ Parse \/ Execute

SpecEngine == InitEngine /\ [][EngineNext]_vars

(***************************************************************************)
(* Properties.                                                             *)
(***************************************************************************)
resolverHasRun == pc \notin {"name", "entities"}

hasRel(e, k, t) == Rel(k, t) \in Range(e.relationships)

present(n) == \E i \in 1..Len(entities) : entities[i].name = n

entityNamed(n) == entities[CHOOSE i \in 1..Len(entities) : entities[i].name = n]

\* The association table as the parser documents it: the key belongs to
\* each kind listed under it.
linked(a, b) ==
    \/ a = "Invoice" /\ b \in {"Client", "Document"}
    \/ a = "Order" /\ b \in {"Client", "Product"}
    \/ a = "Task" /\ b = "Project"
    \/ a = "Contract" /\ b = "Client"
    \/ a = "TimeEntry" /\ b \in {"Project", "Task"}

\* C1: once the resolver has run, for entities A and B both present, an
\* association A -> B of the table gives belongsTo(B) on A and hasMany(A)
\* on B; and a belongsTo on one side exists exactly when the reciprocal
\* hasMany exists on the other side.
C1_RelationshipSymmetry ==
    resolverHasRun =>
        \A i, j \in 1..Len(entities) :
            LET A == entities[i]
                B == entities[j]
            IN  /\ linked(A.name, B.name) =>
                       hasRel(A, "belongsTo", B.name) /\ hasRel(B, "hasMany", A.name)
                /\ hasRel(A, "belongsTo", B.name) <=> hasRel(B, "hasMany", A.name)

\* Invoice and Client were both detected and are wired in both directions.
C1_Witness ==
    /\ pc = "features"
    /\ present("Invoice") /\ present("Client")
    /\ hasRel(entityNamed("Invoice"), "belongsTo", "Client")
    /\ hasRel(entityNamed("Client"), "hasMany", "Invoice")

\* C2: the target of every relationship of every entity names an entity
\* of the same Specification; an entity whose table targets were not
\* detected has no relationship.
C2_NoDanglingTarget ==
    resolverHasRun =>
        \A i \in 1..Len(entities) :
            /\ \A k \in 1..Len(entities[i].relationships) :
                   present(entities[i].relationships[k].target)
            /\ (\A t \in entityNames : linked(entities[i].name, t) => ~present(t))
                   => ~\E k \in 1..Len(entities[i].relationships) :
                          entities[i].relationships[k].type = "belongsTo"

\* Only Contract was detected: it has no relationship although the table
\* lists Client for it.
C2_Witness ==
    /\ pc = "features"
    /\ namesOf(entities) = <<"Contract">>
    /\ entities[1].relationships = <<>>
    /\ "Client" \in Range(relationshipMap("Contract"))

NoDuplicates(seq) == \A i, j \in 1..Len(seq) : seq[i] = seq[j] => i = j

\* C3: no two entries of the files generated so far, nor of the manifest
\* returned, share a path, and no build ends in a path collision: neither
\* two entities nor an entity and a global file meet on a path.
C3_NoPathCollision ==
    /\ NoDuplicates(pathsOf(files))
    /\ NoDuplicates(pathsOf(manifest.files))
    /\ error # "collision"

\* A manifest with the files of two user-facing entities beside the
\* global dashboard, settings and team pages.
C3_Witness ==
    /\ pc = "returned"
    /\ Len(entities) = 2
    /\ entities[1].isUserFacing /\ entities[2].isUserFacing
    /\ Len(manifest.files) = Len(GlobalPaths) + 2 * Len(entityTemplates)
    /\ "src/app/(dashboard)/dashboard/settings/page.tsx" \in Range(pathsOf(manifest.files))

userFacing == {i \in 1..Len(entities) : entities[i].isUserFacing}

completeLength == 6 + 7 * Cardinality(userFacing)

C4_Invariant ==
    /\ pc = "failed" => manifest = NoManifest /\ written = {} /\ ~installed
    /\ manifest # NoManifest =>
           /\ manifest.returned
           /\ pc \in {"returned", "written", "done"}
           /\ error = "none"
           /\ Len(manifest.files) = completeLength
    /\ written # {} => manifest.returned /\ written = Range(pathsOf(manifest.files))
    /\ installed => written # {}

\* C4: a build that hits a fatal error hands its caller no manifest and
\* writes and installs nothing; a manifest handed over is complete; and a
\* failed build takes no further step (no retry, no recovery).
C4_AllOrNothing == []C4_Invariant /\ [][pc # "failed"]_vars

\* A render error ended the build of a Specification that has entities.
C4_Witness ==
    /\ pc = "failed"
    /\ error = "render"
    /\ manifest = NoManifest
    /\ Len(entities) >= 1

\* Where an entry stands in the documented order: the phase (0 global, 1
\* entity), the position of its entity in spec.entities, and the position
\* of its file in the per-entity listing.
phaseOf(f) == IF f.content.entity = None THEN 0 ELSE 1

entityIndexOf(f) ==
    IF f.content.entity = None THEN 0
    ELSE CHOOSE i \in 1..Len(entities) : entities[i].name = f.content.entity

listingOf(slug) ==
    <<"src/app/(dashboard)/dashboard/" \o slug \o "s/page.tsx",
      "src/app/(dashboard)/dashboard/" \o slug \o "s/new/page.tsx",
      "src/app/(dashboard)/dashboard/" \o slug \o "s/[id]/page.tsx",
      "src/app/(dashboard)/dashboard/" \o slug \o "s/[id]/edit/page.tsx",
      "src/app/(dashboard)/dashboard/" \o slug \o "s/actions.ts",
      "src/app/api/v1/" \o slug \o "s/route.ts",
      "src/app/api/v1/" \o slug \o "s/[id]/route.ts">>

positionOf(f) ==
    IF f.content.entity = None
    THEN CHOOSE k \in 1..Len(GlobalPaths) : GlobalPaths[k] = f.path
    ELSE LET l == listingOf(entities[entityIndexOf(f)].slug)
         IN  IF f.path \in Range(l) THEN CHOOSE k \in 1..Len(l) : l[k] = f.path ELSE 0

orderKey(f) == <<phaseOf(f), entityIndexOf(f), positionOf(f)>>

\* Lexicographic order of two keys.
keyBefore(a, b) ==
    \/ a[1] < b[1]
    \/ a[1] = b[1] /\ a[2] < b[2]
    \/ a[1] = b[1] /\ a[2] = b[2] /\ a[3] < b[3]

\* Each entry stands before its successor; keyBefore is a strict order, so
\* every earlier entry stands before every later one.
inDocumentedOrder(fs) ==
    \A i \in 1..(Len(fs) - 1) : keyBefore(orderKey(fs[i]), orderKey(fs[i + 1]))

occurrences(fs, p) == Cardinality({i \in 1..Len(fs) : fs[i].path = p})

entriesOf(fs, n) == {i \in 1..Len(fs) : fs[i].content.entity = n}

\* C6: a manifest returned holds, for each entity with isUserFacing, each
\* of its seven files (list, new, detail, edit, actions, the collection and
\* the item API route) exactly once and nothing else of that entity, and
\* holds no entry of an entity that is not user-facing.
C6_UserFacingOnly ==
    manifest.returned =>
        \A i \in 1..Len(entities) :
            LET e == entities[i]
            IN  IF e.isUserFacing
                THEN /\ \A p \in Range(listingOf(e.slug)) : occurrences(manifest.files, p) = 1
                     /\ Cardinality(entriesOf(manifest.files, e.name)) = 7
                ELSE /\ \A p \in Range(listingOf(e.slug)) : occurrences(manifest.files, p) = 0
                     /\ entriesOf(manifest.files, e.name) = {}

\* A manifest for one user-facing entity and one entity that is not.
C6_Witness ==
    /\ pc = "returned"
    /\ Len(entities) = 2
    /\ ~entities[1].isUserFacing
    /\ entities[2].isUserFacing
    /\ Len(manifest.files) = 13

\* The lower-cased words of the description.
words == {toLowerCase(description[i]) : i \in 1..Len(description)}

entitiesExtracted == pc \notin {"name", "entities"}

noEntityKeyword == \A n \in entityNames : keywordsOf(n) \cap words = {}

noBillingKeyword ==
    /\ "freemium" \notin words
    /\ ~\E i \in 1..(Len(description) - 1) :
           toLowerCase(description[i]) = "free" /\ toLowerCase(description[i + 1]) = "tier"
    /\ ~("enterprise" \in words /\ "self-hosted" \in words)

threeDefaultTiers ==
    <<[name |-> "Starter", slug |-> "starter", price |-> 29, highlighted |-> FALSE],
      [name |-> "Pro", slug |-> "pro", price |-> 79, highlighted |-> TRUE],
      [name |-> "Enterprise", slug |-> "enterprise", price |-> 199, highlighted |-> FALSE]>>

\* C7: for a description with no entity keyword and no billing keyword,
\* the parsed Specification has no entity and exactly the tiers Starter
\* 29, Pro 79, Enterprise 199, and the manifest returned is the global
\* file set alone, with no per-entity entry.
C7_NoSignalDefaults ==
    (noEntityKeyword /\ noBillingKeyword) =>
        /\ entitiesExtracted => entities = <<>>
        /\ pc \notin {"name", "entities", "features", "billing"} =>
               billingPlans = threeDefaultTiers
        /\ manifest.returned =>
               /\ pathsOf(manifest.files) = GlobalPaths
               /\ \A i \in 1..Len(manifest.files) : manifest.files[i].content.entity = None

\* The build of "build a app" returned: no entity, default tiers, six global files.
C7_Witness ==
    /\ pc = "returned"
    /\ description = <<"build", "a", "app">>
    /\ noEntityKeyword /\ noBillingKeyword
    /\ entities = <<>>
    /\ Len(manifest.files) = 6

onlyKeywordOf(n) ==
    /\ Cardinality(keywordsOf(n) \cap words) = 1
    /\ \A m \in entityNames \ {n} : keywordsOf(m) \cap words = {}

\* C8: a description holding exactly one keyword of one entity kind and
\* no keyword of any other kind yields exactly that entity, with the field
\* list of the catalog; for Contract that is title, status, value,
\* currency, signedAt, expiresAt, notes.
C8_SingleKeywordSingleEntity ==
    entitiesExtracted =>
        \A n \in entityNames :
            onlyKeywordOf(n) =>
                /\ Len(entities) = 1
                /\ entities[1].name = n
                /\ entities[1].fields = fieldsOf(n)
                /\ n = "Contract" =>
                       [i \in 1..Len(entities[1].fields) |-> entities[1].fields[i].name]
                           = <<"title", "status", "value", "currency", "signedAt",
                               "expiresAt", "notes">>

\* "a contract app": the one keyword contract, and the Contract entity alone.
C8_Witness ==
    /\ pc = "features"
    /\ description = <<"a", "contract", "app">>
    /\ onlyKeywordOf("Contract")
    /\ Len(entities) = 1
    /\ entities[1].name = "Contract"
    /\ Len(entities[1].fields) = 7

firstMatchName ==
    IF namedMatch(description).matched THEN namedMatch(description).capture
    ELSE IF buildMatch(description).matched
         THEN filterStopWords(buildMatch(description).capture)
    ELSE IF saasMatch(description).matched
         THEN filterStopWords(saasMatch(description).capture)
    ELSE significantWords(description)

\* The patterns the cascade must have run: those up to the first match.
firstMatchTried ==
    IF namedMatch(description).matched THEN <<"named">>
    ELSE IF buildMatch(description).matched THEN <<"named", "build">>
    ELSE IF saasMatch(description).matched THEN <<"named", "build", "domain">>
    ELSE <<"named", "build", "domain", "fallback">>

C10_Invariant ==
    /\ \A i \in 1..Len(tried) : tried[i] = firstMatchTried[i]
    /\ Len(tried) <= Len(firstMatchTried)
    /\ pc # "name" => tried = firstMatchTried /\ appName = firstMatchName

\* C10: the patterns run in the order named, build, domain, fallback; the
\* first that matches gives the name, whatever stop-word removal leaves of
\* its capture; and once a name is set no pattern runs and the name stays.
C10_FirstMatchWins ==
    /\ []C10_Invariant
    /\ [][pc # "name" => tried' = tried /\ appName' = appName]_vars

\* The build pattern matched and stop-word removal reduced its capture;
\* the domain pattern would have matched too, and did not run.
C10_Witness ==
    /\ pc = "entities"
    /\ tried = <<"named", "build">>
    /\ Len(appName) < Len(buildMatch(description).capture)
    /\ saasMatch(description).matched
    /\ filterStopWords(saasMatch(description).capture) # appName

\* The Specification parse() returned has every component: a name (a string,
\* possibly of no word), a list of entities, a list of features, at least
\* one billing plan and at least the dashboard page.
populated ==
    /\ DOMAIN appName = 1..Len(appName)
    /\ DOMAIN entities = 1..Len(entities)
    /\ DOMAIN features = 1..Len(features)
    /\ Len(billingPlans) >= 1
    /\ Len(pages) = 1 + Len(entities)
    /\ error = "none"

noNameSignal ==
    /\ ~namedMatch(description).matched
    /\ ~buildMatch(description).matched
    /\ ~saasMatch(description).matched

noFeatureKeyword ==
    \A i \in 1..Len(featurePatterns) : featurePatterns[i].keywords \cap words = {}

\* What parse() gives where the description carries no signal.
defaultsWhereNoSignal ==
    /\ noNameSignal => appName = SelectSeq(description, LAMBDA w : toLowerCase(w) \notin stopWords)
    /\ noEntityKeyword => entities = <<>> /\ pages = <<"/dashboard">>
    /\ noFeatureKeyword => features = <<>>
    /\ noBillingKeyword => billingPlans = threeDefaultTiers

\* How far parse() has come: the stage it is at, and within the name
\* cascade the number of patterns run.
parseRank ==
    CASE pc = "name" -> Len(tried)
      [] pc = "entities" -> 5
      [] pc = "features" -> 6
      [] pc = "billing" -> 7
      [] pc = "pages" -> 8
      [] OTHER -> 9

\* parse() has a step to take: a stage to run, or a pattern of the cascade
\* left to try.
hasNextStep ==
    \/ pc \in {"entities", "features", "billing", "pages"}
    \/ pc = "name" /\ Len(tried) < Len(patternOrder)

\* C11: parse() of any description returns: until it has returned it always
\* has a next step, every step brings it nearer to its return, and none
\* raises an error; and the Specification returned has every component,
\* with the documented defaults where the description carries no name,
\* entity, feature or billing signal.
C11_ExtractionNeverFails ==
    /\ [](pc # "parsed" => hasNextStep /\ error = "none")
    /\ [][parseRank' > parseRank]_vars
    /\ [](pc = "parsed" => populated /\ defaultsWhereNoSignal)

\* parse("a") returned: no signal of any kind, every component at its default.
C11_Witness ==
    /\ pc = "parsed"
    /\ description = <<"a">>
    /\ noNameSignal /\ noEntityKeyword /\ noFeatureKeyword /\ noBillingKeyword
    /\ appName = <<>>
    /\ entities = <<>>
    /\ billingPlans = threeDefaultTiers

stampedBy(fs, c) ==
    \A i \in 1..Len(fs) :
        /\ fs[i].content.header = [timestamp |-> c.timestamp, version |-> c.version]
        /\ fs[i].content.now = c.timestamp

\* C14: the timestamp and the version are captured once per build: no step
\* of the global or the entity phase changes them, and every entry pushed
\* so far, and every entry of the returned manifest, carries those two values.
C14_CapturedOnce ==
    /\ [](stampedBy(files, ctx) /\ stampedBy(manifest.files, ctx))
    /\ [][(pc \in {"global", "entity"}) => (ctx' = ctx)]_vars

\* A build is in its entity phase with global and per-entity files
\* pushed, and the clock has moved on since the capture.
C14_Witness ==
    /\ pc = "entity"
    /\ ti >= 2
    /\ clock > ctx.timestamp
    /\ \E i \in 1..Len(files) : files[i].content.entity = None
    /\ \E i \in 1..Len(files) : files[i].content.entity # None
    /\ stampedBy(files, ctx)

\* C15: every lookup a template makes in a type-mapping table for a field
\* of a catalog entity finds an entry: each of the three tables has an
\* entry for each of the eight field types.
C15_TypeTablesTotal ==
    lookup.made => lookup.found /\ DOMAIN tableOf(lookup.table) = FieldTypes

\* A form template asks the input table for the json field of a Report.
C15_InputMiss ==
    ~(lookup.made /\ lookup.table = "input" /\ lookup.entity = "Report"
          /\ lookup.type = "json" /\ ~lookup.found)

rendered(fs, t) == \E i \in 1..Len(fs) : fs[i].content.template = t

C17_DuplicatePartialRejected ==
    /\ duplicatePartials(partialFiles) # {} =>
           /\ pc \in {"parsed", "failed"}
           /\ pc = "failed" => error = "DuplicatePartialError"
           /\ files = <<>>
           /\ manifest = NoManifest
           /\ partials = EmptyRegistry
    /\ error = "DuplicatePartialError" => duplicatePartials(partialFiles) # {}
    /\ (pc \in {"global", "entity", "returned"} /\ duplicatePartials(partialFiles) = {}) =>
           /\ DOMAIN partials = partialNamesIn(partialFiles)
           /\ \A n \in DOMAIN partials : PartialFile(partials[n], n) \in partialFiles

\* field-input.hbs exists in components/ and in layouts/: the load has failed.
C17_Witness ==
    /\ PartialFile("components", "field-input") \in partialFiles
    /\ PartialFile("layouts", "field-input") \in partialFiles
    /\ pc = "failed"
    /\ error = "DuplicatePartialError"
    /\ files = <<>>
    /\ partials = EmptyRegistry

globalFiles(c) == [i \in 1..Len(GlobalPaths) |-> globalFile(i, c)]

entityFiles(e, c) ==
    IF e.isUserFacing THEN [k \in 1..Len(entityTemplates) |-> entityFile(e, k, c)]
    ELSE <<>>

RECURSIVE allEntityFiles(_, _)
allEntityFiles(es, c) ==
    IF es = <<>> THEN <<>>
    ELSE entityFiles(Head(es), c) \o allEntityFiles(Tail(es), c)

\* The manifest of generate() on the entities es with the context c, run
\* with nothing else in the process.
aloneManifest(es, c) == globalFiles(c) \o allEntityFiles(es, c)

invocationState ==
    Invocation(pc, entities, pages, files, gi, ei, ti, manifest, error, errorInfo, ctx)

C19_WriteAfterManifest ==
    /\ [](written # {} => manifest.returned /\ Len(manifest.files) = completeLength
                              /\ ~dryRun)
    /\ [][written' # written => pc = "returned" /\ manifest.returned /\ ~dryRun']_vars
    /\ [](dryRun => written = {} /\ ~installed)
    /\ [](installed => ~skipInstall /\ ~dryRun /\ written # {} /\ error = "none")
    /\ [][installed' # installed => pc = "written" /\ written # {} /\ written' = written]_vars
    /\ [](pc = "failed" => written = {} /\ ~installed)

\* A dry run of a Specification with a user-facing entity has ended: the
\* manifest is complete, nothing is on disk, nothing was installed.
C19_Witness ==
    /\ pc = "done"
    /\ dryRun
    /\ manifest.returned
    /\ Len(manifest.files) > Len(GlobalPaths)
    /\ written = {}
    /\ ~installed

sessionOrgs == {calls[p].session : p \in DOMAIN calls}

membershipsOf(d, o) == {m \in d.memberships : m.organizationId = o}

\* What the claim calls a call that must be refused, judged on the form
\* data and the database as the call found them.
mustRefuse(c) ==
    \/ c.session = NoOrg
    \/ c.op \in {"inviteMember", "updateOrganization"} /\ c.organizationId # c.session
    \/ c.op = "removeMember" /\ findMembership(c.before, c.membershipId) = NoMembership
    \/ c.op = "removeMember"
           /\ findMembership(c.before, c.membershipId).organizationId # c.session

\* C21: no step of inviteMember, removeMember or updateOrganization
\* creates, deletes or changes a membership or the organization record of
\* an organization that is not the caller's session organization; and a
\* call with no session organization, a mismatching organizationId, or a
\* membership that is absent or of another organization ends in Forbidden
\* with the database as the call found it.
C21_TenantIsolation ==
    /\ [][\A o \in Orgs \ sessionOrgs :
              /\ membershipsOf(db', o) = membershipsOf(db, o)
              /\ db'.organizations[o] = db.organizations[o]]_vars
    /\ [](\A p \in DOMAIN calls :
              calls[p].pc = "done" /\ mustRefuse(calls[p])
                  => calls[p].result = "Forbidden" /\ db = calls[p].before)

\* A caller of orgX asked to remove the membership of orgY's member and
\* was refused; the membership is still there.
C21_Witness ==
    /\ calls[1].session = "orgX"
    /\ calls[1].op = "removeMember"
    /\ calls[1].membershipId = 4
    /\ calls[1].pc = "done"
    /\ calls[1].result = "Forbidden"
    /\ [id |-> 4, userId |-> 2, organizationId |-> "orgY"] \in db.memberships

\* The names the schema template adds to every model itself.
reservedNames == {"id", "createdAt", "updatedAt", "organizationId"}

fieldNames(e) == {e.fields[k].name : k \in 1..Len(e.fields)}

lowerNames(es) == [i \in 1..Len(es) |-> toLowerCase(es[i].name)]

slugsOf(xs) == [i \in 1..Len(xs) |-> xs[i].slug]

keywordHits(d, n) == {i \in 1..Len(d) : lowerWords(d)[i] \in keywordsOf(n)}

\* C23: at every stage of extraction, the names of the entities are
\* pairwise distinct once lower-cased and their slugs are pairwise
\* distinct, however many keywords of one kind the description holds; the
\* slugs of the billing plans are pairwise distinct.
C23_DistinctNamesAndSlugs ==
    /\ NoDuplicates(lowerNames(entities))
    /\ NoDuplicates(slugsOf(entities))
    /\ NoDuplicates(slugsOf(billingPlans))

\* "invoice billing client": two keywords of Invoice, one of Client; two
\* entities, and the three default plans.
C23_Witness ==
    /\ pc = "parsed"
    /\ description = <<"invoice", "billing", "client">>
    /\ Cardinality(keywordHits(description, "Invoice")) = 2
    /\ Len(entities) = 2
    /\ Len(billingPlans) = 3

C24_NamedKeepsStopWord ==
    ~(/\ pc # "name"
      /\ tried = <<"named">>
      /\ appName # <<>>
      /\ isStopWord(appName[1]))

\* C25: no step of the global or the entity phase changes the
\* Specification; the global context never holds an entity; and every
\* per-entity entry pushed was rendered with a context that holds exactly
\* the entity whose path it has.
C25_InputsUnchanged ==
    /\ [][(pc \in {"global", "entity"}) => (specVars' = specVars)]_vars
    /\ [](ctx.entity = None)
    /\ [](\A i \in 1..Len(files) :
             files[i].content.entity # None =>
                 /\ present(files[i].content.entity)
                 /\ \E k \in 1..Len(entityTemplates) :
                        files[i] = entityFile(entityNamed(files[i].content.entity), k, ctx))

\* The files of the first entity are pushed and the loop is rendering the
\* second: the global context still holds no entity.
C25_Witness ==
    /\ pc = "entity"
    /\ ei = 2
    /\ ti >= 2
    /\ entities[1].isUserFacing /\ entities[2].isUserFacing
    /\ ctx.entity = None
    /\ files[Len(files)].content.entity = entities[2].name
    /\ files[Len(GlobalPaths) + 1].content.entity = entities[1].name

\* C26: the resolver tells two cases apart for a target of the association
\* table.  A target of a detected entity that names no kind of the closed
\* catalog fails the build with RelationshipResolutionError; a target that is
\* a kind of the catalog but was not detected raises no error and the entity
\* gets no relationship to it.
tableConsulted == pc \notin {"name", "entities"}

detectedKinds == Range(namesOf(matchEntities(description)))

foreignTargets ==
    {t \in UNION {Range(tableTargets(n)) : n \in detectedKinds} : t \notin entityNames}

C26_ResolverCases ==
    tableConsulted =>
        /\ foreignTargets # {} => pc = "failed" /\ error = "RelationshipResolutionError"
        /\ foreignTargets = {} =>
               /\ pc # "failed"
               /\ error = "none"
               /\ Range(namesOf(entities)) = detectedKinds
               /\ \A i \in 1..Len(entities) :
                      \A t \in Range(tableTargets(entities[i].name)) :
                          t \notin detectedKinds =>
                              /\ ~hasRel(entities[i], "belongsTo", t)
                              /\ ~present(t)

C26_Witness ==
    /\ addedRelation = [source |-> "Contract", target |-> "Vendor"]
    /\ "Contract" \in detectedKinds
    /\ pc = "failed"
    /\ error = "RelationshipResolutionError"

\* C27: the engine never rewrites a template in which the closing }} of an
\* expression is immediately followed by a literal }: rendering it gives a
\* parse error or corrupted output, never the value followed by the brace;
\* the same template with a space after }} renders the value followed by " }".
settled == hbs.pc \in {"done", "failed"}

intended == hbs.pc = "done" /\ hbs.out = hbs.pre \o slugValue \o hbs.sep \o <<"}">>

notRewritten == hbs.pc # "idle" => hbs.template = templateText(hbs.pre, hbs.sep)

collided == settled /\ hbs.sep = <<>>

separatedByAuthor == settled /\ hbs.sep = <<" ">>

\* The expression's own {{ does not follow a literal { .
plainOpening == hbs.pre = <<>> \/ hbs.pre[Len(hbs.pre)] # "{"

C27_DelimiterCollision ==
    /\ notRewritten
    /\ collided => ~intended
    /\ separatedByAuthor => intended

\* C27, amended: as above, and the template with the space renders the value
\* followed by " }" when no literal { immediately precedes the expression's
\* opening {{ (the engine reads {{{ as the opening of an unescaped
\* expression, which the }} then fails to close).
C27_CollisionClosingSide ==
    /\ notRewritten
    /\ collided => ~intended
    /\ separatedByAuthor /\ plainOpening => intended
    /\ separatedByAuthor /\ ~plainOpening =>
           hbs.pc = "failed" /\ hbs.expecting = "CLOSE_UNESCAPED" /\ hbs.got = "CLOSE"

C27_Witness ==
    /\ hbs.pre = <<"{", "c">>
    /\ hbs.sep = <<>>
    /\ hbs.pc = "failed"
    /\ hbs.expecting = "CLOSE"
    /\ hbs.got = "CLOSE_UNESCAPED"

\* C28: after any sequence of Stripe webhook events the stored status of the
\* subscription is a member of the SubscriptionStatus enum, whatever status
\* the incoming Stripe subscription carries.
C28_StoredStatusInEnum ==
    webhook.pc # "idle" => webhook.sub \in SubscriptionStatus \cup {"none"}

\* A second event, customer.subscription.updated with Stripe's status
\* "incomplete", on a row an earlier event left PAST_DUE: the update was
\* refused and the row kept its status.
C28_Witness ==
    /\ webhook.pc = "responded"
    /\ webhook.sigValid /\ ~webhook.fails
    /\ webhook.type = "customer.subscription.updated"
    /\ webhook.stripeStatus = "incomplete"
    /\ webhook.before = "PAST_DUE"
    /\ webhook.threw
    /\ webhook.sub = "PAST_DUE"

\* C29: after any interleaving of inviteMember calls, two calls for one
\* email that both pass findUnique before either creates included, there is
\* at most one user per email and at most one membership per user and
\* organization, and every call that returned normally has left exactly one
\* membership for the invited email in the caller's organization.
usersWith(email) == {u \in db.users : u.email = email}

membershipsFor(email, org) ==
    {m \in db.memberships :
        m.organizationId = org /\ \E u \in usersWith(email) : u.id = m.userId}

C29_InviteUniqueness ==
    /\ \A e \in Emails : Cardinality(usersWith(e)) <= 1
    /\ \A u \in db.users, o \in Orgs :
          Cardinality({m \in db.memberships : m.userId = u.id /\ m.organizationId = o}) <= 1
    /\ \A p \in DOMAIN calls :
          calls[p].op = "inviteMember" /\ calls[p].pc = "done" /\ calls[p].result = "ok" =>
              Cardinality(membershipsFor(calls[p].email, calls[p].session)) = 1

\* Both callers invited c@z, both found no user; one created the user and
\* the membership, the other's create was rejected.
C29_Witness ==
    /\ calls[1].email = "c@z" /\ calls[2].email = "c@z"
    /\ calls[1].pc = "done" /\ calls[1].result = "ok"
    /\ calls[2].pc = "done" /\ calls[2].result = "error" /\ calls[2].user = 0
    /\ Cardinality(usersWith("c@z")) = 1

\* C30: checkout get-or-create.  After any interleaving of checkout requests
\* for one organization exactly one Stripe customer has been created for it
\* and the organization's stored stripeCustomerId is that customer's; a
\* request that finds a stored stripeCustomerId creates no customer and
\* uses the stored one for its checkout session.
checkedOut(o) ==
    \E p \in DOMAIN calls :
        /\ calls[p].op = "checkout" /\ calls[p].organizationId = o
        /\ calls[p].pc = "done" /\ calls[p].result = "ok"

foundStored(c) == c.op = "checkout" /\ c.before.organizations[c.organizationId].stripeCustomerId # NoCustomer

C30_GetOrCreate ==
    /\ \A o \in Orgs :
          /\ Cardinality(customersOf(o)) <= 1
          /\ checkedOut(o) =>
                 customersOf(o) =
                     {[id |-> db.organizations[o].stripeCustomerId, organizationId |-> o]}
    /\ \A p \in DOMAIN calls :
          calls[p].pc = "done" /\ foundStored(calls[p]) =>
              /\ calls[p].customerId =
                     calls[p].before.organizations[calls[p].organizationId].stripeCustomerId
              /\ [customer |-> calls[p].customerId,
                  organizationId |-> calls[p].organizationId] \in stripe.sessions

\* The part of C30 that holds: a request that found a stored
\* stripeCustomerId has created no customer and its checkout session is for
\* the stored one.
C30_StoredCustomerReused ==
    \A p \in DOMAIN calls :
        foundStored(calls[p]) =>
            /\ calls[p].pc \notin {"createCustomer", "storeCustomer"}
            /\ calls[p].pc = "done" =>
                   [customer |->
                        calls[p].before.organizations[calls[p].organizationId].stripeCustomerId,
                    organizationId |-> calls[p].organizationId] \in stripe.sessions

====
